---- MODULE Spec2Model ----
(***************************************************************************)
(* Review ingestion pipeline of SentixAI: the CSV tokenizer (parseCSV),    *)
(* the review extractor (parseReviews), the canonical serializer           *)
(* (serializeReviews), the merge of a new import into stored data          *)
(* (mergeReviewsInCsv), the date resolver (parseDate, in its two copies)   *)
(* and the time filters (filterCsvByTime, filterCsvByTimeRange,            *)
(* filterCsvByDaysRange).                                                  *)
(*                                                                         *)
(* A JavaScript string is modelled as a sequence of one-character strings, *)
(* so that tokenizing, trimming, quoting and formatting are computed       *)
(* character by character as the code computes them.  Array indexes are    *)
(* 1-based here; the index 0 stands for JavaScript's -1 ("not found").     *)
(***************************************************************************)
EXTENDS Integers, Sequences, FiniteSets, TLC

VARIABLES
  pc,            \* position of the run: which operation has been applied
  text,          \* parseCSV: the text being scanned
  tok,           \* parseCSV: loop state (i, rows, currentRow, currentCell, inQuotes)
  existingCsv,   \* mergeReviewsInCsv: first argument
  newCsv,        \* mergeReviewsInCsv: second argument
  merged,        \* mergeReviewsInCsv(existingCsv, newCsv)
  remerged,      \* mergeReviewsInCsv(merged, newCsv)
  reviewsOf,     \* what parseReviews extracts from existingCsv, newCsv, merged and remerged
  records,       \* serializeReviews: the Review[] argument
  serialized,    \* serializeReviews(records)
  extracted,     \* parseReviews(serialized)
  host,          \* the JavaScript host: its time zone and its Date parser
  dateText,      \* parseDate: first argument
  reference,     \* parseDate: second argument, possibly missing
  resolved,      \* the instant parseDate returned
  sheet,         \* the header cells and data rows csvContent was written from
  csvInput,      \* parseReviews and the filters: the CSV text
  reviewList,    \* parseReviews(csvInput)
  reviewListAlt, \* parseReviews of the same rows under the other header convention
  args,          \* the filters: the window arguments of the call
  clock,         \* the filters: the clock reading new Date() of the call
  filtered,      \* the text the filter returned
  again,         \* a second call of the same filter: its clock reading and its result
  located,       \* the header rows parseReviews and the filters locate in csvInput
  kpis,          \* the dashboard: the review counts of the current and the previous period
  keys,          \* fingerprintNoDate of each of the records
  board          \* useComparisonData: apiReady, data, error and the running analyze calls

\* the variables of the date resolver, the extractor run and the time filters
windowVars == <<host, dateText, reference, resolved, sheet, csvInput, reviewList,
                reviewListAlt, args, clock, filtered>>

\* the variables of the dashboard: repeated and compared filter calls
boardVars == <<again, located, kpis, keys, board>>

\* the variables of the tokenizer, the merge and the round trip
ingestVars == <<text, tok, existingCsv, newCsv, merged, remerged, reviewsOf,
                records, serialized, extracted>>

vars == <<pc, text, tok, existingCsv, newCsv, merged, remerged, reviewsOf,
          records, serialized, extracted, host, dateText, reference, resolved,
          sheet, csvInput, reviewList, reviewListAlt, args, clock, filtered, again, located, kpis, keys, board>>

----------------------------------------------------------------------------
(* Characters and elementary string operations                             *)

QUOTE == "\""
COMMA == ","
CR == "\r"
LF == "\n"
SPACE == " "
TAB == "\t"

\* the value of an argument that was not passed, and of text[i] past the end
Undefined == <<"undefined">>

\* JavaScript truthiness of a string-or-undefined value
Truthy(s) == s # Undefined /\ s # <<>>

\* the lower-case letter of each upper-case ASCII letter
LowerOf ==
  [c \in {"A", "B", "C", "D", "E", "F", "G", "H", "I", "J", "K", "L", "M",
          "N", "O", "P", "Q", "R", "S", "T", "U", "V", "W", "X", "Y", "Z"} |->
     CASE c = "A" -> "a" [] c = "B" -> "b" [] c = "C" -> "c" [] c = "D" -> "d"
       [] c = "E" -> "e" [] c = "F" -> "f" [] c = "G" -> "g" [] c = "H" -> "h"
       [] c = "I" -> "i" [] c = "J" -> "j" [] c = "K" -> "k" [] c = "L" -> "l"
       [] c = "M" -> "m" [] c = "N" -> "n" [] c = "O" -> "o" [] c = "P" -> "p"
       [] c = "Q" -> "q" [] c = "R" -> "r" [] c = "S" -> "s" [] c = "T" -> "t"
       [] c = "U" -> "u" [] c = "V" -> "v" [] c = "W" -> "w" [] c = "X" -> "x"
       [] c = "Y" -> "y" [] c = "Z" -> "z"]

toLowerChar(c) == IF c \in DOMAIN LowerOf THEN LowerOf[c] ELSE c

toLowerCase(s) == [k \in DOMAIN s |-> toLowerChar(s[k])]

\* the characters String.prototype.trim and the regex class \s remove
IsSpace(c) == c \in {SPACE, TAB, LF, CR}

RECURSIVE trimStart(_)
trimStart(s) ==
  IF s # <<>> /\ IsSpace(Head(s)) THEN trimStart(Tail(s)) ELSE s

RECURSIVE trimEnd(_)
trimEnd(s) ==
  IF s # <<>> /\ IsSpace(s[Len(s)]) THEN trimEnd(SubSeq(s, 1, Len(s) - 1)) ELSE s

trim(s) == trimEnd(trimStart(s))

\* s.includes(sub)
includes(s, sub) ==
  \E k \in 0..(Len(s) - Len(sub)) : \A j \in DOMAIN sub : s[k + j] = sub[j]

hasChar(s, c) == \E k \in DOMAIN s : s[k] = c

\* parts.join(sep)
RECURSIVE join(_, _)
join(parts, sep) ==
  IF parts = <<>> THEN <<>>
  ELSE IF Len(parts) = 1 THEN parts[1]
  ELSE parts[1] \o sep \o join(Tail(parts), sep)

\* xs.findIndex(P), given the set of indexes whose element satisfies P: the least
\* of them, 0 when there is none
findIndex(hits) == IF hits = {} THEN 0 ELSE CHOOSE k \in hits : \A j \in hits : k <= j

----------------------------------------------------------------------------
(* parseCSV: one iteration of the scanning loop, the flush after the loop, *)
(* and the whole function                                                  *)

tokInit == [i |-> 1, rows |-> <<>>, currentRow |-> <<>>, currentCell |-> <<>>,
            inQuotes |-> FALSE]

charAt(t, i) == IF i \in DOMAIN t THEN t[i] ELSE "undefined"

\* tokStep without the CRLF look-ahead: a CR and the LF after it each end a row
tokStepNoCrlf(t, st) ==
  LET char == charAt(t, st.i)
      nextChar == charAt(t, st.i + 1)
  IN  IF char = QUOTE
      THEN IF st.inQuotes /\ nextChar = QUOTE
           THEN [st EXCEPT !.currentCell = Append(@, QUOTE), !.i = @ + 2]
           ELSE [st EXCEPT !.inQuotes = ~@, !.i = @ + 1]
      ELSE IF char = COMMA /\ ~st.inQuotes
      THEN [st EXCEPT !.currentRow = Append(@, st.currentCell),
                      !.currentCell = <<>>, !.i = @ + 1]
      ELSE IF (char = CR \/ char = LF) /\ ~st.inQuotes
      THEN [st EXCEPT !.rows = Append(@, Append(st.currentRow, st.currentCell)),
                      !.currentRow = <<>>, !.currentCell = <<>>, !.i = @ + 1]
      ELSE [st EXCEPT !.currentCell = Append(@, char), !.i = @ + 1]

\* tokStep with a comma that ends the cell inside quotes too
tokStepCommaSplits(t, st) ==
  LET char == charAt(t, st.i)
      nextChar == charAt(t, st.i + 1)
  IN  IF char = QUOTE
      THEN IF st.inQuotes /\ nextChar = QUOTE
           THEN [st EXCEPT !.currentCell = Append(@, QUOTE), !.i = @ + 2]
           ELSE [st EXCEPT !.inQuotes = ~@, !.i = @ + 1]
      ELSE IF char = COMMA
      THEN [st EXCEPT !.currentRow = Append(@, st.currentCell),
                      !.currentCell = <<>>, !.i = @ + 1]
      ELSE IF (char = CR \/ char = LF) /\ ~st.inQuotes
      THEN [st EXCEPT !.rows = Append(@, Append(st.currentRow, st.currentCell)),
                      !.currentRow = <<>>, !.currentCell = <<>>,
                      !.i = IF char = CR /\ nextChar = LF THEN @ + 2 ELSE @ + 1]
      ELSE [st EXCEPT !.currentCell = Append(@, char), !.i = @ + 1]

\* the loop body for the character at st.i, followed by the loop's i++
tokStep(t, st) ==
  LET char == charAt(t, st.i)
      nextChar == charAt(t, st.i + 1)
  IN  IF char = QUOTE
      THEN IF st.inQuotes /\ nextChar = QUOTE
           THEN [st EXCEPT !.currentCell = Append(@, QUOTE), !.i = @ + 2]
           ELSE [st EXCEPT !.inQuotes = ~@, !.i = @ + 1]
      ELSE IF char = COMMA /\ ~st.inQuotes
      THEN [st EXCEPT !.currentRow = Append(@, st.currentCell),
                      !.currentCell = <<>>, !.i = @ + 1]
      ELSE IF (char = CR \/ char = LF) /\ ~st.inQuotes
      THEN [st EXCEPT !.rows = Append(@, Append(st.currentRow, st.currentCell)),
                      !.currentRow = <<>>, !.currentCell = <<>>,
                      !.i = IF char = CR /\ nextChar = LF THEN @ + 2 ELSE @ + 1]
      ELSE [st EXCEPT !.currentCell = Append(@, char), !.i = @ + 1]

\* the flush after the loop: if (currentCell || currentRow.length > 0) { ... }
tokFlush(st) ==
  IF st.currentCell # <<>> \/ Len(st.currentRow) > 0
  THEN [st EXCEPT !.currentRow = Append(@, st.currentCell),
                  !.rows = Append(@, Append(st.currentRow, st.currentCell))]
  ELSE st

\* the loop from state st to the end of the text
RECURSIVE tokRun(_, _)
tokRun(t, st) == IF st.i > Len(t) THEN st ELSE tokRun(t, tokStep(t, st))

parseCSV(t) == tokFlush(tokRun(t, tokInit)).rows

----------------------------------------------------------------------------
(* Numbers: parseInt of a digit run and String(n) of a non-negative integer *)

Digits == <<"0", "1", "2", "3", "4", "5", "6", "7", "8", "9">>

IsDigit(c) == \E k \in DOMAIN Digits : Digits[k] = c

digitValue(c) == (CHOOSE k \in DOMAIN Digits : Digits[k] = c) - 1

\* parseInt(run) for a non-empty run of decimal digits
RECURSIVE parseInt(_)
parseInt(run) ==
  IF run = <<>> THEN 0
  ELSE 10 * parseInt(SubSeq(run, 1, Len(run) - 1)) + digitValue(run[Len(run)])

\* String(n): decimal digits, no leading zero
RECURSIVE numberToString(_)
numberToString(n) ==
  IF n < 10 THEN <<Digits[n + 1]>>
  ELSE numberToString(n \div 10) \o <<Digits[(n % 10) + 1]>>

\* str.match(/(\d+)/): the first maximal run of digits, <<>> when there is none
RECURSIVE digitPrefix(_)
digitPrefix(s) ==
  IF s # <<>> /\ IsDigit(Head(s)) THEN <<Head(s)>> \o digitPrefix(Tail(s)) ELSE <<>>

RECURSIVE firstDigitRun(_)
firstDigitRun(s) ==
  IF s = <<>> THEN <<>>
  ELSE IF IsDigit(Head(s)) THEN digitPrefix(s)
  ELSE firstDigitRun(Tail(s))

----------------------------------------------------------------------------
(* parseReviews                                                            *)

strAuthor == <<"a", "u", "t", "h", "o", "r">>
strReviewer == <<"r", "e", "v", "i", "e", "w", "e", "r">>
strCommentedAt == <<"c", "o", "m", "m", "e", "n", "t", "e", "d", "_", "a", "t">>
strTime == <<"t", "i", "m", "e">>
strDate == <<"d", "a", "t", "e">>
strContent == <<"c", "o", "n", "t", "e", "n", "t">>
strComment == <<"c", "o", "m", "m", "e", "n", "t">>
strRating == <<"r", "a", "t", "i", "n", "g">>
strOverall == <<"o", "v", "e", "r", "a", "l", "l">>
strSource == <<"s", "o", "u", "r", "c", "e">>
strSouce == <<"s", "o", "u", "c", "e">>
strAnonymous == <<"A", "n", "o", "n", "y", "m", "o", "u", "s">>
strGoogle == <<"g", "o", "o", "g", "l", "e">>

isHeaderRow(row) ==
  LET lower == join([k \in DOMAIN row |-> trim(toLowerCase(row[k]))], <<SPACE>>)
  IN  includes(lower, strReviewer) \/ includes(lower, strAuthor)

\* for (let i = 0; i < Math.min(rows.length, 10); i++) if (isHeaderRow(rows[i])) ...
RECURSIVE headerScan(_, _)
headerScan(rows, k) ==
  IF k > Len(rows) \/ k > 10 THEN 1
  ELSE IF isHeaderRow(rows[k]) THEN k
  ELSE headerScan(rows, k + 1)

\* the header row: the first of the first 10 rows that isHeaderRow accepts, else the first row
headerRowIdx(rows) == headerScan(rows, 1)

isAuthorHeader(h) == includes(h, strAuthor) \/ includes(h, strReviewer)
\* variant: only the label content names the content column
isContentHeaderContentOnly(h) == h = strContent

isContentHeader(h) == h = strContent \/ h = strComment

\* variant: a label that contains commented_at, time or date names the date column
isDateHeaderIncludes(h) ==
  includes(h, strCommentedAt) \/ includes(h, strTime) \/ includes(h, strDate)

isDateHeader(h) == h = strCommentedAt \/ h = strTime \/ h = strDate

isRatingHeader(h) == includes(h, strRating) /\ ~includes(h, strOverall)
isSourceHeader(h) == includes(h, strSource) \/ includes(h, strSouce)

\* cells[idx]?.trim() || dflt, where idx = 0 and idx > cells.length read undefined
cellOr(cells, idx, dflt) ==
  IF idx \in DOMAIN cells /\ trim(cells[idx]) # <<>> THEN trim(cells[idx]) ELSE dflt

\* variant: parseInt of the whole cell, which reads digits only at its start
ratingOfLeadingDigits(cells, ratingIdx) ==
  LET ratingStr == IF ratingIdx \in DOMAIN cells THEN cells[ratingIdx] ELSE <<>>
      ratingMatch == digitPrefix(trimStart(ratingStr))
  IN  IF ratingMatch # <<>> THEN parseInt(ratingMatch) ELSE 0

\* the rating of a data row: parseInt of the first digit run of cells[ratingIdx] || ''
ratingOf(cells, ratingIdx) ==
  LET ratingStr == IF ratingIdx \in DOMAIN cells THEN cells[ratingIdx] ELSE <<>>
      ratingMatch == firstDigitRun(ratingStr)
  IN  IF ratingMatch # <<>> THEN parseInt(ratingMatch) ELSE 0

moreThanOneCell(row) == Len(row) > 1

\* variant: a header without a rating column is accepted
parseReviewsRatingOptional(csvContent) ==
  IF ~Truthy(csvContent) THEN <<>>
  ELSE
    LET rows == parseCSV(csvContent) IN
    IF Len(rows) < 2 THEN <<>>
    ELSE
      LET hdr == headerRowIdx(rows)
          header == [k \in DOMAIN rows[hdr] |-> trim(toLowerCase(rows[hdr][k]))]
          authorIdx == findIndex({k \in DOMAIN header : isAuthorHeader(header[k])})
          dateIdx == findIndex({k \in DOMAIN header : isDateHeader(header[k])})
          contentIdx == findIndex({k \in DOMAIN header : isContentHeader(header[k])})
          ratingIdx == findIndex({k \in DOMAIN header : isRatingHeader(header[k])})
          sourceIdx == findIndex({k \in DOMAIN header : isSourceHeader(header[k])})
          dataRows == SelectSeq(SubSeq(rows, hdr + 1, Len(rows)), moreThanOneCell)
      IN  IF authorIdx = 0 \/ contentIdx = 0 THEN <<>>
          ELSE [k \in DOMAIN dataRows |->
                  [author |-> cellOr(dataRows[k], authorIdx, strAnonymous),
                   date |-> cellOr(dataRows[k], dateIdx, <<>>),
                   content |-> cellOr(dataRows[k], contentIdx, <<>>),
                   rating |-> ratingOf(dataRows[k], ratingIdx),
                   source |-> cellOr(dataRows[k], sourceIdx, strGoogle)]]

parseReviews(csvContent) ==
  IF ~Truthy(csvContent) THEN <<>>
  ELSE
    LET rows == parseCSV(csvContent) IN
    IF Len(rows) < 2 THEN <<>>
    ELSE
      LET hdr == headerRowIdx(rows)
          header == [k \in DOMAIN rows[hdr] |-> trim(toLowerCase(rows[hdr][k]))]
          authorIdx == findIndex({k \in DOMAIN header : isAuthorHeader(header[k])})
          dateIdx == findIndex({k \in DOMAIN header : isDateHeader(header[k])})
          contentIdx == findIndex({k \in DOMAIN header : isContentHeader(header[k])})
          ratingIdx == findIndex({k \in DOMAIN header : isRatingHeader(header[k])})
          sourceIdx == findIndex({k \in DOMAIN header : isSourceHeader(header[k])})
          dataRows == SelectSeq(SubSeq(rows, hdr + 1, Len(rows)), moreThanOneCell)
      IN  IF authorIdx = 0 \/ contentIdx = 0 \/ ratingIdx = 0 THEN <<>>
          ELSE [k \in DOMAIN dataRows |->
                  [author |-> cellOr(dataRows[k], authorIdx, strAnonymous),
                   date |-> cellOr(dataRows[k], dateIdx, <<>>),
                   content |-> cellOr(dataRows[k], contentIdx, <<>>),
                   rating |-> ratingOf(dataRows[k], ratingIdx),
                   source |-> cellOr(dataRows[k], sourceIdx, strGoogle)]]

----------------------------------------------------------------------------
(* serializeReviews                                                        *)

canonicalHeader ==
  <<"a", "u", "t", "h", "o", "r", ",", "d", "a", "t", "e", ",",
    "c", "o", "n", "t", "e", "n", "t", ",", "r", "a", "t", "i", "n", "g", ",",
    "s", "o", "u", "r", "c", "e">>

\* s.replace(/"/g, '""')
RECURSIVE doubleQuotes(_)
doubleQuotes(s) ==
  IF s = <<>> THEN <<>>
  ELSE IF Head(s) = QUOTE THEN <<QUOTE, QUOTE>> \o doubleQuotes(Tail(s))
  ELSE <<Head(s)>> \o doubleQuotes(Tail(s))

\* escapeCsvCell that wraps the cell in quotes without doubling the quotes inside
escapeCsvCellNoDoubling(value) ==
  LET s == trim(value)
  IN  IF hasChar(s, COMMA) \/ hasChar(s, QUOTE) \/ hasChar(s, LF) \/ hasChar(s, CR)
      THEN <<QUOTE>> \o s \o <<QUOTE>>
      ELSE s

escapeCsvCell(value) ==
  LET s == trim(value)
  IN  IF hasChar(s, COMMA) \/ hasChar(s, QUOTE) \/ hasChar(s, LF) \/ hasChar(s, CR)
      THEN <<QUOTE>> \o doubleQuotes(s) \o <<QUOTE>>
      ELSE s

serializeRow(r) ==
  join(<<escapeCsvCell(r.author), escapeCsvCell(r.date), escapeCsvCell(r.content),
         escapeCsvCell(numberToString(r.rating)), escapeCsvCell(r.source)>>, <<COMMA>>)

serializeReviews(reviews) ==
  join(<<canonicalHeader>> \o [k \in DOMAIN reviews |-> serializeRow(reviews[k])], <<LF>>)

----------------------------------------------------------------------------
(* mergeReviewsInCsv                                                       *)

\* s.replace(/\s+/g, ' ')
RECURSIVE collapseWhitespace(_)
collapseWhitespace(s) ==
  IF s = <<>> THEN <<>>
  ELSE IF IsSpace(Head(s))
  THEN <<SPACE>> \o collapseWhitespace(trimStart(s))
  ELSE <<Head(s)>> \o collapseWhitespace(Tail(s))

\* normalize without the lower-casing
normalizeCaseSensitive(s) == collapseWhitespace(trim(s))

normalize(s) == collapseWhitespace(trim(toLowerCase(s)))

fingerprintNoDate(r) ==
  normalize(r.author) \o <<"|">> \o normalize(r.content) \o <<"|">> \o numberToString(r.rating)

\* s.split(/\r?\n/).length: one more than the number of line feeds
splitLinesLength(s) == Cardinality({k \in DOMAIN s : s[k] = LF}) + 1

\* variant: the Map keeps the index of the last occurrence of a fingerprint
RECURSIVE indexExistingLastWins(_, _, _)
indexExistingLastWins(reviews, k, byKey) ==
  IF k > Len(reviews) THEN byKey
  ELSE LET key == fingerprintNoDate(reviews[k])
           others == [x \in DOMAIN byKey \ {key} |-> byKey[x]]
       IN  indexExistingLastWins(reviews, k + 1, others @@ (key :> k))

\* the Map built over the existing reviews: fingerprint -> index of its first occurrence
RECURSIVE indexExisting(_, _, _)
indexExisting(reviews, k, byKey) ==
  IF k > Len(reviews) THEN byKey
  ELSE LET key == fingerprintNoDate(reviews[k])
       IN  indexExisting(reviews, k + 1,
                         IF key \in DOMAIN byKey THEN byKey ELSE byKey @@ (key :> k))

\* mergeOne that replaces the whole existing record by the new one on a match
mergeOneReplaces(st, newR) ==
  LET key == fingerprintNoDate(newR)
  IN  IF key \in DOMAIN st.existingByKey
      THEN [st EXCEPT !.existingReviews[st.existingByKey[key]] = newR]
      ELSE IF key \notin st.seenNewKeys
      THEN [existingReviews |-> Append(st.existingReviews, newR),
            existingByKey |-> st.existingByKey @@ (key :> Len(st.existingReviews) + 1),
            seenNewKeys |-> st.seenNewKeys \cup {key}]
      ELSE st

\* mergeOne that appends every new review whose fingerprint is not in the store,
\* repeats within the batch included
mergeOneNoBatchDedupe(st, newR) ==
  LET key == fingerprintNoDate(newR)
  IN  IF key \in DOMAIN st.existingByKey
      THEN [st EXCEPT !.existingReviews[st.existingByKey[key]].date = newR.date]
      ELSE [st EXCEPT !.existingReviews = Append(@, newR)]

\* mergeOne that does not register the appended review in existingByKey
mergeOneNoRegister(st, newR) ==
  LET key == fingerprintNoDate(newR)
  IN  IF key \in DOMAIN st.existingByKey
      THEN [st EXCEPT !.existingReviews[st.existingByKey[key]].date = newR.date]
      ELSE IF key \notin st.seenNewKeys
      THEN [st EXCEPT !.existingReviews = Append(@, newR),
                      !.seenNewKeys = @ \cup {key}]
      ELSE st

\* one iteration of the loop over newReviews
mergeOne(st, newR) ==
  LET key == fingerprintNoDate(newR)
  IN  IF key \in DOMAIN st.existingByKey
      THEN [st EXCEPT !.existingReviews[st.existingByKey[key]].date = newR.date]
      ELSE IF key \notin st.seenNewKeys
      THEN [existingReviews |-> Append(st.existingReviews, newR),
            existingByKey |-> st.existingByKey @@ (key :> Len(st.existingReviews) + 1),
            seenNewKeys |-> st.seenNewKeys \cup {key}]
      ELSE st

\* variant: the loop runs over newReviews from the last to the first
RECURSIVE mergeLoopBackwards(_, _)
mergeLoopBackwards(st, newReviews) ==
  IF newReviews = <<>> THEN st
  ELSE mergeLoopBackwards(mergeOne(st, newReviews[Len(newReviews)]),
                          SubSeq(newReviews, 1, Len(newReviews) - 1))

RECURSIVE mergeLoop(_, _)
mergeLoop(st, newReviews) ==
  IF newReviews = <<>> THEN st
  ELSE mergeLoop(mergeOne(st, Head(newReviews)), Tail(newReviews))

emptyMap == [key \in {} |-> 0]

\* the review list that mergeReviewsInCsv serializes
mergedReviews(existingReviews, newReviews) ==
  mergeLoop([existingReviews |-> existingReviews,
             existingByKey |-> indexExisting(existingReviews, 1, emptyMap),
             seenNewKeys |-> {}], newReviews).existingReviews

\* mergeReviewsInCsv that writes the new CSV in canonical form when nothing is stored
mergeCanonicalizesFirstImport(existing, new) ==
  IF ~Truthy(existing)
  THEN (IF Truthy(new) THEN serializeReviews(parseReviews(new)) ELSE <<>>)
  ELSE IF ~Truthy(new) THEN existing
  ELSE
    LET existingReviews == parseReviews(existing)
        newReviews == parseReviews(new)
        existingHasContent == splitLinesLength(trim(existing)) > 1
    IN  IF existingHasContent /\ Len(existingReviews) = 0 THEN existing
        ELSE IF Len(newReviews) = 0 THEN existing
        ELSE serializeReviews(mergedReviews(existingReviews, newReviews))

\* mergeReviewsInCsv without the early return for a new CSV that yields no review
mergeNoEmptyNewGuard(existing, new) ==
  IF ~Truthy(existing) THEN (IF Truthy(new) THEN new ELSE <<>>)
  ELSE IF ~Truthy(new) THEN existing
  ELSE
    LET existingReviews == parseReviews(existing)
        newReviews == parseReviews(new)
        existingHasContent == splitLinesLength(trim(existing)) > 1
    IN  IF existingHasContent /\ Len(existingReviews) = 0 THEN existing
        ELSE serializeReviews(mergedReviews(existingReviews, newReviews))

mergeReviewsInCsv(existing, new) ==
  IF ~Truthy(existing) THEN (IF Truthy(new) THEN new ELSE <<>>)
  ELSE IF ~Truthy(new) THEN existing
  ELSE
    LET existingReviews == parseReviews(existing)
        newReviews == parseReviews(new)
        existingHasContent == splitLinesLength(trim(existing)) > 1
    IN  IF existingHasContent /\ Len(existingReviews) = 0 THEN existing
        ELSE IF Len(newReviews) = 0 THEN existing
        ELSE serializeReviews(mergedReviews(existingReviews, newReviews))

----------------------------------------------------------------------------
(* Instants and the calendar.  An instant is Date.getTime() in whole       *)
(* seconds.  A host is the environment the code runs in: the offset of its *)
(* local time from UTC in seconds (east positive) and whether its Date     *)
(* parser reads a hyphenated numeric date, 3-4-2025, as month-day-year or  *)
(* rejects it.                                                             *)

SecondsPerDay == 24 * 60 * 60

\* new Date('2026-01-11T12:00:00Z').getTime() / 1000
SAMPLE_DATA_ANCHOR_DATE == 1768132800

\* days from 1970-01-01 to the civil date y-m-d; a day past the end of the
\* month runs into the next month, as in the Date constructor
daysFromCivil(y, m, d) ==
  LET yy == IF m <= 2 THEN y - 1 ELSE y
      era == yy \div 400
      yoe == yy - era * 400
      mp == IF m > 2 THEN m - 3 ELSE m + 9
      doy == (153 * mp + 2) \div 5 + d - 1
      doe == yoe * 365 + yoe \div 4 - yoe \div 100 + doy
  IN  era * 146097 + doe - 719468

\* the civil date of the day z days after 1970-01-01
civilFromDays(z) ==
  LET zz == z + 719468
      era == zz \div 146097
      doe == zz - era * 146097
      yoe == (doe - doe \div 1460 + doe \div 36524 - doe \div 146096) \div 365
      doy == doe - (365 * yoe + yoe \div 4 - yoe \div 100)
      mp == (5 * doy + 2) \div 153
      m == IF mp < 10 THEN mp + 3 ELSE mp - 9
  IN  [year |-> yoe + era * 400 + (IF m <= 2 THEN 1 ELSE 0),
       month |-> m,
       day |-> doy - (153 * mp + 2) \div 5 + 1]

\* new Date(year, month, day): local midnight, month counted from 0, a year
\* of 0..99 taken as 1900 + year
newDate(year, month, day, h) ==
  LET y == IF year >= 0 /\ year <= 99 THEN 1900 + year ELSE year
  IN  daysFromCivil(y, month + 1, day) * SecondsPerDay - h.timezone

\* new Date(now.getFullYear(), now.getMonth(), 1)
startOfMonth(now, h) ==
  LET local == civilFromDays((now + h.timezone) \div SecondsPerDay)
  IN  newDate(local.year, local.month - 1, 1, h)

allDigits(s) == \A k \in DOMAIN s : IsDigit(s[k])

\* the match of /^(\d{1,2})[\/\-](\d{1,2})[\/\-](\d{4})/ : the three numbers,
\* the two separators and the text after the year
numericYear(s, a, afterA, b, afterB) ==
  LET isSep(c) == c = "/" \/ c = "-"
  IN  IF /\ Len(a) \in 1..2 /\ Len(s) > Len(a) /\ isSep(s[Len(a) + 1])
         /\ Len(b) \in 1..2 /\ Len(afterA) > Len(b) /\ isSep(afterA[Len(b) + 1])
         /\ Len(digitPrefix(afterB)) >= 4
      THEN [ok |-> TRUE, first |-> parseInt(a), second |-> parseInt(b),
            year |-> parseInt(SubSeq(afterB, 1, 4)),
            seps |-> <<s[Len(a) + 1], afterA[Len(b) + 1]>>,
            rest |-> SubSeq(afterB, 5, Len(afterB))]
      ELSE [ok |-> FALSE, first |-> 0, second |-> 0, year |-> 0, seps |-> <<>>, rest |-> <<>>]

numericSecond(s, a, afterA, b) ==
  numericYear(s, a, afterA, b, SubSeq(afterA, Len(b) + 2, Len(afterA)))

numericFirst(s, a, afterA) == numericSecond(s, a, afterA, digitPrefix(afterA))

numericDate(s) ==
  LET a == digitPrefix(s)
  IN  numericFirst(s, a, SubSeq(s, Len(a) + 2, Len(s)))

\* s.match(/^(\d{1,2})[\/\-](\d{1,2})[\/\-](\d{4})(?:\s|T|$)/)
dmyEnd(n) == n.ok /\ (n.rest = <<>> \/ IsSpace(n.rest[1]) \/ n.rest[1] = "T")

dmyMatch(s) == dmyEnd(numericDate(s))

WeekdayNames ==
  { <<"s", "u", "n", "d", "a", "y">>, <<"m", "o", "n", "d", "a", "y">>,
    <<"t", "u", "e", "s", "d", "a", "y">>, <<"w", "e", "d", "n", "e", "s", "d", "a", "y">>,
    <<"t", "h", "u", "r", "s", "d", "a", "y">>, <<"f", "r", "i", "d", "a", "y">>,
    <<"s", "a", "t", "u", "r", "d", "a", "y">> }

notADate == [valid |-> FALSE, time |-> 0]

\* new Date(s) for YYYY-MM-DD (UTC midnight)
isoDate(s) ==
  IF /\ Len(s) = 10 /\ s[5] = "-" /\ s[8] = "-"
     /\ allDigits(SubSeq(s, 1, 4)) /\ allDigits(SubSeq(s, 6, 7)) /\ allDigits(SubSeq(s, 9, 10))
  THEN LET y == parseInt(SubSeq(s, 1, 4))
           m == parseInt(SubSeq(s, 6, 7))
           d == parseInt(SubSeq(s, 9, 10))
       IN  IF m \in 1..12 /\ d \in 1..31
           THEN [valid |-> TRUE, time |-> daysFromCivil(y, m, d) * SecondsPerDay]
           ELSE notADate
  ELSE notADate

\* new Date(s) for YYYY-MM-DDTHH:MM:SS and YYYY-MM-DD HH:MM:SS (local time)
\* and for YYYY-MM-DDTHH:MM:SSZ (UTC)
isoDateTime(s, h) ==
  LET zulu == Len(s) = 20 /\ s[20] = "Z" /\ s[11] = "T"
      day == isoDate(SubSeq(s, 1, 10))
  IN  IF /\ (Len(s) = 19 \/ zulu) /\ (s[11] = "T" \/ s[11] = SPACE)
         /\ s[14] = ":" /\ s[17] = ":"
         /\ allDigits(SubSeq(s, 12, 13)) /\ allDigits(SubSeq(s, 15, 16))
         /\ allDigits(SubSeq(s, 18, 19))
         /\ day.valid
      THEN LET hh == parseInt(SubSeq(s, 12, 13))
               mm == parseInt(SubSeq(s, 15, 16))
               ss == parseInt(SubSeq(s, 18, 19))
           IN  IF hh <= 23 /\ mm <= 59 /\ ss <= 59
               THEN [valid |-> TRUE,
                     time |-> day.time + hh * 3600 + mm * 60 + ss
                              - (IF zulu THEN 0 ELSE h.timezone)]
               ELSE notADate
      ELSE notADate

\* new Date(s) for a numeric date M/D/YYYY, read as month, day, year in local
\* time, with or without the name of a weekday after it; M-D-YYYY is read the
\* same way by a host that accepts hyphens
legacyYear(year) ==
  IF year <= 49 THEN 2000 + year ELSE IF year <= 99 THEN 1900 + year ELSE year

legacyOf(n, h) ==
  IF /\ n.ok
     /\ (n.seps = <<"/", "/">> \/ (n.seps = <<"-", "-">> /\ h.hyphenDates))
     /\ \/ n.rest = <<>>
        \/ (n.rest[1] = SPACE /\ toLowerCase(Tail(n.rest)) \in WeekdayNames)
     /\ n.first \in 1..12 /\ n.second \in 1..31
  THEN [valid |-> TRUE,
        time |-> daysFromCivil(legacyYear(n.year), n.first, n.second) * SecondsPerDay
                 - h.timezone]
  ELSE notADate

legacyDate(s, h) == legacyOf(numericDate(s), h)

\* new Date(s): the instant the host's Date parser reads from s, valid = FALSE
\* for an Invalid Date.  The forms are those of the date cells of review
\* exports; every other text, a relative phrase included, is an Invalid Date.
firstValid(date, dateTime, legacy) ==
  IF date.valid THEN date ELSE IF dateTime.valid THEN dateTime ELSE legacy

dateParse(s, h) == firstValid(isoDate(s), isoDateTime(s, h), legacyDate(s, h))

----------------------------------------------------------------------------
(* parseDate: the resolver of utils/csvFilter.ts and its older copy in     *)
(* utils/comparisonRow.ts                                                  *)

strHour == <<"h", "o", "u", "r">>
strDay == <<"d", "a", "y">>
strWeek == <<"w", "e", "e", "k">>
strMonth == <<"m", "o", "n", "t", "h">>
strYear == <<"y", "e", "a", "r">>

\* variant: the day keyword is tested before the hour keyword
relativeDateDayFirst(lower, now) ==
  LET numMatch == firstDigitRun(lower)
      num == IF numMatch # <<>> THEN parseInt(numMatch) ELSE 1
  IN  IF includes(lower, strDay) THEN [valid |-> TRUE, time |-> now - num * 24 * 60 * 60]
      ELSE IF includes(lower, strHour) THEN [valid |-> TRUE, time |-> now - num * 60 * 60]
      ELSE IF includes(lower, strWeek)
        THEN [valid |-> TRUE, time |-> now - num * 7 * 24 * 60 * 60]
      ELSE IF includes(lower, strMonth)
        THEN [valid |-> TRUE, time |-> now - num * 30 * 24 * 60 * 60]
      ELSE IF includes(lower, strYear)
        THEN [valid |-> TRUE, time |-> now - num * 365 * 24 * 60 * 60]
      ELSE [valid |-> FALSE, time |-> now]

\* the relative formats: valid = FALSE when no unit keyword occurs in lower
relativeDate(lower, now) ==
  LET numMatch == firstDigitRun(lower)
      num == IF numMatch # <<>> THEN parseInt(numMatch) ELSE 1
  IN  IF includes(lower, strHour) THEN [valid |-> TRUE, time |-> now - num * 60 * 60]
      ELSE IF includes(lower, strDay) THEN [valid |-> TRUE, time |-> now - num * 24 * 60 * 60]
      ELSE IF includes(lower, strWeek)
        THEN [valid |-> TRUE, time |-> now - num * 7 * 24 * 60 * 60]
      ELSE IF includes(lower, strMonth)
        THEN [valid |-> TRUE, time |-> now - num * 30 * 24 * 60 * 60]
      ELSE IF includes(lower, strYear)
        THEN [valid |-> TRUE, time |-> now - num * 365 * 24 * 60 * 60]
      ELSE [valid |-> FALSE, time |-> now]

\* referenceDate ?? new Date(SAMPLE_DATA_ANCHOR_DATE)
referenceOr(referenceDate) ==
  IF referenceDate.given THEN referenceDate.time ELSE SAMPLE_DATA_ANCHOR_DATE

\* parseDate of utils/csvFilter.ts
\* the rules of parseDate in their order, for the trimmed text s, the match n
\* of the numeric pattern, the relative reading and the reading of new Date(s)
parseDateRules(s, now, h, relative, n, absoluteDate) ==
  LET day == n.first
      month == n.second - 1
  IN  IF Len(s) = 10 /\ allDigits(s) THEN parseInt(s)
      ELSE IF relative.valid THEN relative.time
      ELSE IF dmyEnd(n) /\ month >= 0 /\ month <= 11 /\ day >= 1 /\ day <= 31
        THEN newDate(n.year, month, day, h)
      ELSE IF absoluteDate.valid THEN absoluteDate.time
      ELSE now

parseDateOf(s, now, h) ==
  parseDateRules(s, now, h, relativeDate(toLowerCase(s), now), numericDate(s), dateParse(s, h))

parseDate(dateStr, referenceDate, h) ==
  parseDateOf(trim(dateStr), referenceOr(referenceDate), h)

\* parseDate of utils/comparisonRow.ts
comparisonRowParseDate(dateStr, referenceDate, h) ==
  LET now == referenceOr(referenceDate)
      s == trim(toLowerCase(dateStr))
      absoluteDate == dateParse(dateStr, h)
      relative == relativeDate(s, now)
  IN  IF absoluteDate.valid THEN absoluteDate.time
      ELSE IF relative.valid THEN relative.time
      ELSE now

----------------------------------------------------------------------------
(* The time filters of utils/csvFilter.ts.  A month count is held in       *)
(* hundredths of a month (0.25 is 25, 1 is 100), so that the fractional    *)
(* windows of the interface are integers here; the window 'all' is the     *)
(* record with all = TRUE.                                                 *)

\* for (let i = 0; i < Math.min(rows.length, 10); i++) ... return i; return 0
RECURSIVE findHeaderRowScan(_, _)
findHeaderRowScan(rows, k) ==
  IF k > Len(rows) \/ k > 10 THEN 1
  ELSE LET lower == join([c \in DOMAIN rows[k] |-> toLowerCase(rows[k][c])], <<SPACE>>)
       IN  IF includes(lower, strReviewer) \/ includes(lower, strAuthor) THEN k
           ELSE findHeaderRowScan(rows, k + 1)

findHeaderRowIndex(rows) == findHeaderRowScan(rows, 1)

DAYS_PER_MONTH == 30

\* 0.25 month, in hundredths
LAST_WEEK_MONTHS == 25

\* months * DAYS_PER_MONTH * 24 * 60 * 60 seconds, for months in hundredths
monthsToSeconds(months) == months * ((DAYS_PER_MONTH * SecondsPerDay) \div 100)

\* toLine of rowsToCsv
toLine(cells) ==
  join([k \in DOMAIN cells |->
          IF \E c \in {COMMA, QUOTE, LF, CR} : hasChar(cells[k], c)
          THEN <<QUOTE>> \o doubleQuotes(cells[k]) \o <<QUOTE>>
          ELSE cells[k]], <<COMMA>>)

rowsToCsv(headerRow, dataRows) ==
  join(<<toLine(headerRow)>> \o [k \in DOMAIN dataRows |-> toLine(dataRows[k])], <<LF>>)

\* columns.findIndex(c => c === 'commented_at' || c === 'time' || c === 'date')
\* on headerRow.map(h => h.toLowerCase().trim())
dateColumn(headerRow) ==
  findIndex({k \in DOMAIN headerRow : isDateHeader(trim(toLowerCase(headerRow[k])))})

\* row[dateIdx]?.replace(/"/g, '').trim(), empty for a row that ends before the column
dateValueOf(row, dateIdx) ==
  LET notQuote(c) == c # QUOTE
  IN  IF dateIdx \in DOMAIN row THEN trim(SelectSeq(row[dateIdx], notQuote)) ELSE <<>>

\* the instant parseDate(dateValue, now) of the date cell of row
parsedOf(row, dateIdx, now, h) ==
  parseDate(dateValueOf(row, dateIdx), [given |-> TRUE, time |-> now], h)

\* variant: 0.25 month is a window of 7.5 days like every other month count
filterCsvByTimeNoLastWeek(csvContent, months, now, h) ==
  IF months.all THEN csvContent
  ELSE
    LET rows == parseCSV(trim(csvContent)) IN
    IF Len(rows) < 2 THEN csvContent
    ELSE
      LET hdrIdx == findHeaderRowIndex(rows)
          headerRow == rows[hdrIdx]
          dateIdx == dateColumn(headerRow)
          cutoff == now - monthsToSeconds(months.hundredths)
          keep(row) ==
            /\ dateValueOf(row, dateIdx) # <<>>
            /\ parsedOf(row, dateIdx, now, h) >= cutoff
            /\ parsedOf(row, dateIdx, now, h) <= now
      IN  IF dateIdx = 0 THEN csvContent
          ELSE rowsToCsv(headerRow, SelectSeq(SubSeq(rows, hdrIdx + 1, Len(rows)), keep))

filterCsvByTime(csvContent, months, now, h) ==
  IF months.all THEN csvContent
  ELSE
    LET rows == parseCSV(trim(csvContent)) IN
    IF Len(rows) < 2 THEN csvContent
    ELSE
      LET hdrIdx == findHeaderRowIndex(rows)
          headerRow == rows[hdrIdx]
          dateIdx == dateColumn(headerRow)
          cutoff == IF months.hundredths = LAST_WEEK_MONTHS
                    THEN startOfMonth(now, h)
                    ELSE now - monthsToSeconds(months.hundredths)
          keep(row) ==
            /\ dateValueOf(row, dateIdx) # <<>>
            /\ parsedOf(row, dateIdx, now, h) >= cutoff
            /\ parsedOf(row, dateIdx, now, h) <= now
      IN  IF dateIdx = 0 THEN csvContent
          ELSE rowsToCsv(headerRow, SelectSeq(SubSeq(rows, hdrIdx + 1, Len(rows)), keep))

\* variant: a file without a date column is returned as it is
filterCsvByTimeRangeNoOp(csvContent, startMonthsAgo, endMonthsAgo, now, h) ==
  IF startMonthsAgo <= endMonthsAgo THEN <<>>
  ELSE
    LET rows == parseCSV(trim(csvContent)) IN
    IF Len(rows) < 2 THEN <<>>
    ELSE
      LET hdrIdx == findHeaderRowIndex(rows)
          headerRow == rows[hdrIdx]
          dateIdx == dateColumn(headerRow)
          startCutoff == now - monthsToSeconds(startMonthsAgo)
          endCutoff == now - monthsToSeconds(endMonthsAgo)
          keep(row) ==
            /\ dateValueOf(row, dateIdx) # <<>>
            /\ parsedOf(row, dateIdx, now, h) >= startCutoff
            /\ parsedOf(row, dateIdx, now, h) < endCutoff
      IN  IF dateIdx = 0 THEN csvContent
          ELSE rowsToCsv(headerRow, SelectSeq(SubSeq(rows, hdrIdx + 1, Len(rows)), keep))

filterCsvByTimeRange(csvContent, startMonthsAgo, endMonthsAgo, now, h) ==
  IF startMonthsAgo <= endMonthsAgo THEN <<>>
  ELSE
    LET rows == parseCSV(trim(csvContent)) IN
    IF Len(rows) < 2 THEN <<>>
    ELSE
      LET hdrIdx == findHeaderRowIndex(rows)
          headerRow == rows[hdrIdx]
          dateIdx == dateColumn(headerRow)
          startCutoff == now - monthsToSeconds(startMonthsAgo)
          endCutoff == now - monthsToSeconds(endMonthsAgo)
          keep(row) ==
            /\ dateValueOf(row, dateIdx) # <<>>
            /\ parsedOf(row, dateIdx, now, h) >= startCutoff
            /\ parsedOf(row, dateIdx, now, h) < endCutoff
      IN  IF dateIdx = 0 THEN <<>>
          ELSE rowsToCsv(headerRow, SelectSeq(SubSeq(rows, hdrIdx + 1, Len(rows)), keep))

\* variant: the end of the range is included
filterCsvByDaysRangeClosed(csvContent, startDaysAgo, endDaysAgo, now, h) ==
  IF startDaysAgo <= endDaysAgo THEN <<>>
  ELSE
    LET rows == parseCSV(trim(csvContent)) IN
    IF Len(rows) < 2 THEN <<>>
    ELSE
      LET hdrIdx == findHeaderRowIndex(rows)
          headerRow == rows[hdrIdx]
          dateIdx == dateColumn(headerRow)
          startCutoff == now - startDaysAgo * SecondsPerDay
          endCutoff == now - endDaysAgo * SecondsPerDay
          keep(row) ==
            /\ dateValueOf(row, dateIdx) # <<>>
            /\ parsedOf(row, dateIdx, now, h) >= startCutoff
            /\ parsedOf(row, dateIdx, now, h) <= endCutoff
      IN  IF dateIdx = 0 THEN <<>>
          ELSE rowsToCsv(headerRow, SelectSeq(SubSeq(rows, hdrIdx + 1, Len(rows)), keep))

filterCsvByDaysRange(csvContent, startDaysAgo, endDaysAgo, now, h) ==
  IF startDaysAgo <= endDaysAgo THEN <<>>
  ELSE
    LET rows == parseCSV(trim(csvContent)) IN
    IF Len(rows) < 2 THEN <<>>
    ELSE
      LET hdrIdx == findHeaderRowIndex(rows)
          headerRow == rows[hdrIdx]
          dateIdx == dateColumn(headerRow)
          startCutoff == now - startDaysAgo * SecondsPerDay
          endCutoff == now - endDaysAgo * SecondsPerDay
          keep(row) ==
            /\ dateValueOf(row, dateIdx) # <<>>
            /\ parsedOf(row, dateIdx, now, h) >= startCutoff
            /\ parsedOf(row, dateIdx, now, h) < endCutoff
      IN  IF dateIdx = 0 THEN <<>>
          ELSE rowsToCsv(headerRow, SelectSeq(SubSeq(rows, hdrIdx + 1, Len(rows)), keep))

----------------------------------------------------------------------------
(* The review counts of the dashboard                                        *)

\* getReviewCount for the text of one dataset, the clock reading now
getReviewCount(csvContent, timeFilter, now, h) ==
  IF ~Truthy(csvContent) THEN 0
  ELSE Len(parseReviews(filterCsvByTime(csvContent, timeFilter, now, h)))

getReviewCountForPeriod(csvContent, startMonthsAgo, endMonthsAgo, now, h) ==
  IF ~Truthy(csvContent) \/ startMonthsAgo <= endMonthsAgo THEN 0
  ELSE Len(parseReviews(filterCsvByTimeRange(csvContent, startMonthsAgo, endMonthsAgo, now, h)))

getReviewCountForDaysRange(csvContent, startDaysAgo, endDaysAgo, now, h) ==
  IF ~Truthy(csvContent) \/ startDaysAgo <= endDaysAgo THEN 0
  ELSE Len(parseReviews(filterCsvByDaysRange(csvContent, startDaysAgo, endDaysAgo, now, h)))

\* getPeriodBounds: null for 'all', else { current: n, prevStart: n * 2, prevEnd: n }
getPeriodBounds(timeFilter) ==
  IF timeFilter.all THEN [null |-> TRUE, current |-> 0, prevStart |-> 0, prevEnd |-> 0]
  ELSE [null |-> FALSE, current |-> timeFilter.hundredths,
        prevStart |-> timeFilter.hundredths * 2, prevEnd |-> timeFilter.hundredths]

\* ((current - previous) / previous) * 100 as a fraction, 100 or 0 when previous is 0
periodChangeOf(current, previous) ==
  IF previous > 0 THEN [numerator |-> (current - previous) * 100, denominator |-> previous]
  ELSE [numerator |-> IF current > 0 THEN 100 ELSE 0, denominator |-> 1]

\* the kpis of a dashboard of one dataset: totalReviews, prevTotal and
\* periodChange, and thisWeek in the week mode
kpisOf(csvContent, timeFilter, comparisonMode, now, h) ==
  LET totalReviews == getReviewCount(csvContent, timeFilter, now, h)
      periodBounds == getPeriodBounds(timeFilter)
      thisWeek == getReviewCountForDaysRange(csvContent, 7, 0, now, h)
  IN  IF comparisonMode = "week"
      THEN LET prevTotal == getReviewCountForDaysRange(csvContent, 14, 7, now, h)
           IN  [totalReviews |-> totalReviews, current |-> thisWeek, prevTotal |-> prevTotal,
                periodChange |-> periodChangeOf(thisWeek, prevTotal)]
      ELSE IF ~periodBounds.null
      THEN LET prevTotal == getReviewCountForPeriod(csvContent, periodBounds.prevStart,
                                                    periodBounds.prevEnd, now, h)
           IN  [totalReviews |-> totalReviews, current |-> totalReviews, prevTotal |-> prevTotal,
                periodChange |-> periodChangeOf(totalReviews, prevTotal)]
      ELSE [totalReviews |-> totalReviews, current |-> totalReviews, prevTotal |-> 0,
            periodChange |-> [numerator |-> 0, denominator |-> 0]]

----------------------------------------------------------------------------
(* Inputs                                                                  *)

LineEndings == {<<LF>>, <<CR, LF>>, <<CR>>}

\* longest text handed to the tokenizer on its own
MaxTextLen == 5

TokAlphabet == {"a", COMMA, QUOTE, CR, LF}

TokTexts == UNION {[1..n -> TokAlphabet] : n \in 0..MaxTextLen}

\* most data rows in a CSV handed to the merge
MaxRows == 2

altHeader ==
  <<"R", "e", "v", "i", "e", "w", "e", "r", COMMA, "T", "i", "m", "e", COMMA,
    "C", "o", "m", "m", "e", "n", "t", COMMA, "R", "a", "t", "i", "n", "g">>

\* a header with no author, content or rating column
unknownHeader ==
  <<"n", "a", "m", "e", COMMA, "w", "h", "e", "n", COMMA, "t", "e", "x", "t", COMMA,
    "s", "t", "a", "r", "s">>

\* data rows (author, date, content, rating) as they are written in a file:
\*   A b,1,Ok,5
\*    a  B ,2,oK,5        the same review in another casing and spacing, later date
\*   A b,1,Ok,4           the same author and content, another rating
\*   ,,"x,""y""<LF>z",-   blank author and date, quoted content, no digit in the rating
DataRows ==
  { <<"A", SPACE, "b", COMMA, "1", COMMA, "O", "k", COMMA, "5">>,
    <<SPACE, "a", SPACE, SPACE, "B", SPACE, COMMA, "2", COMMA, "o", "K", COMMA, "5">>,
    <<"A", SPACE, "b", COMMA, "1", COMMA, "O", "k", COMMA, "4">>,
    <<COMMA, COMMA, QUOTE, "x", COMMA, QUOTE, QUOTE, "y", QUOTE, QUOTE, LF, "z", QUOTE,
      COMMA, "-">> }

RowLists == UNION {[1..n -> DataRows] : n \in 0..MaxRows}

\* most data rows in a file whose header is not a review header
MaxForeignRows == 1

ForeignRowLists == UNION {[1..n -> DataRows] : n \in 0..MaxForeignRows}

\* the file with the given header line and data rows, lines separated by eol
csvFile(header, rows, eol) == join(<<header>> \o rows, eol)

\* stored data: nothing, canonical files, and files of an unknown schema in each
\* line-ending convention
ExistingCsvs ==
  {Undefined, <<>>}
  \cup {csvFile(canonicalHeader, rows, <<LF>>) : rows \in RowLists}
  \cup {csvFile(unknownHeader, rows, eol) : rows \in ForeignRowLists, eol \in LineEndings}

\* imported files: nothing, scraper exports (Reviewer,Time,Comment,Rating with CRLF)
\* and files of an unknown schema
NewCsvs ==
  {Undefined, <<>>}
  \cup {csvFile(altHeader, rows, <<CR, LF>>) : rows \in RowLists}
  \cup {csvFile(unknownHeader, rows, <<LF>>) : rows \in ForeignRowLists}

\* most records in a Review[] handed to serializeReviews
MaxRecords == 2

\* cells of Review records, all trimmed:  (empty)  Al  A,b
AuthorCells == {<<>>, <<"A", "l">>, <<"A", COMMA, "b">>}

\*   (empty)   ok   "h", t    x<LF>y    x<CR><LF>"y
ContentCells ==
  { <<>>,
    <<"o", "k">>,
    <<QUOTE, "h", QUOTE, COMMA, SPACE, "t">>,
    <<"x", LF, "y">>,
    <<"x", CR, LF, QUOTE, "y">> }

\* date, rating and source of a record:  ("", 0, "")  and  ("1, 2", 12, "web")
RestOfRecord ==
  { [date |-> <<>>, rating |-> 0, source |-> <<>>],
    [date |-> <<"1", COMMA, SPACE, "2">>, rating |-> 12, source |-> <<"w", "e", "b">>] }

ReviewRecords ==
  { [author |-> a, date |-> d.date, content |-> c, rating |-> d.rating, source |-> d.source] :
      a \in AuthorCells, c \in ContentCells, d \in RestOfRecord }

RecordLists == UNION {[1..n -> ReviewRecords] : n \in 0..MaxRecords}

idle == <<>>

\* the date resolver, the extractor run and the time filters are not running
WindowIdle ==
  /\ host = idle /\ dateText = idle /\ reference = idle /\ resolved = idle
  /\ sheet = idle /\ csvInput = idle /\ reviewList = idle /\ reviewListAlt = idle
  /\ args = idle /\ clock = idle /\ filtered = idle

\* no filter call is repeated or compared
BoardIdle ==
  /\ again = idle /\ located = idle /\ kpis = idle /\ keys = idle /\ board = idle

\* the tokenizer, the merge and the round trip are not running
IngestIdle ==
  /\ text = idle /\ tok = tokInit
  /\ existingCsv = idle /\ newCsv = idle /\ merged = idle /\ remerged = idle
  /\ reviewsOf = idle
  /\ records = idle /\ serialized = idle /\ extracted = idle

----------------------------------------------------------------------------
(* The tokenizer as a state machine: one step per loop iteration           *)

InitTok ==
  /\ pc = "scan"
  /\ text \in TokTexts
  /\ tok = tokInit
  /\ existingCsv = idle /\ newCsv = idle /\ merged = idle /\ remerged = idle
  /\ reviewsOf = idle
  /\ records = idle /\ serialized = idle /\ extracted = idle
  /\ WindowIdle
  /\ BoardIdle

\* for (let i = 0; i < text.length; i++) { ... }
TokScan ==
  /\ pc = "scan"
  /\ tok.i <= Len(text)
  /\ tok' = tokStep(text, tok)
  /\ UNCHANGED <<pc, text, existingCsv, newCsv, merged, remerged, reviewsOf,
                 records, serialized, extracted,
                 windowVars, boardVars>>

\* the flush after the loop and the return
TokReturn ==
  /\ pc = "scan"
  /\ tok.i > Len(text)
  /\ tok' = tokFlush(tok)
  /\ pc' = "done"
  /\ UNCHANGED <<text, existingCsv, newCsv, merged, remerged, reviewsOf,
                 records, serialized, extracted,
                 windowVars, boardVars>>

NextTok == TokScan \/ TokReturn

SpecTok == InitTok /\ [][NextTok]_vars

----------------------------------------------------------------------------
(* An import: the stored CSV is merged with a new file, and the same file  *)
(* is then imported a second time into the result                          *)

InitMerge ==
  /\ pc = "start"
  /\ existingCsv \in ExistingCsvs
  /\ newCsv \in NewCsvs
  /\ merged = idle /\ remerged = idle
  /\ reviewsOf = idle
  /\ text = idle /\ tok = tokInit
  /\ records = idle /\ serialized = idle /\ extracted = idle
  /\ WindowIdle
  /\ BoardIdle

Merge ==
  /\ pc = "start"
  /\ merged' = mergeReviewsInCsv(existingCsv, newCsv)
  /\ reviewsOf' = [existing |-> parseReviews(existingCsv), new |-> parseReviews(newCsv),
                   merged |-> parseReviews(merged'), remerged |-> idle]
  /\ pc' = "merged"
  /\ UNCHANGED <<text, tok, existingCsv, newCsv, remerged, records, serialized, extracted,
                 windowVars, boardVars>>

Reimport ==
  /\ pc = "merged"
  /\ remerged' = mergeReviewsInCsv(merged, newCsv)
  /\ reviewsOf' = [reviewsOf EXCEPT !.remerged = parseReviews(remerged')]
  /\ pc' = "reimported"
  /\ UNCHANGED <<text, tok, existingCsv, newCsv, merged, records, serialized, extracted,
                 windowVars, boardVars>>

NextMerge == Merge \/ Reimport

SpecMerge == InitMerge /\ [][NextMerge]_vars

----------------------------------------------------------------------------
(* A round trip: records are serialized and the text is extracted again    *)

InitRoundTrip ==
  /\ pc = "records"
  /\ records \in RecordLists
  /\ serialized = idle /\ extracted = idle
  /\ text = idle /\ tok = tokInit
  /\ existingCsv = idle /\ newCsv = idle /\ merged = idle /\ remerged = idle
  /\ reviewsOf = idle
  /\ WindowIdle
  /\ BoardIdle

Serialize ==
  /\ pc = "records"
  /\ serialized' = serializeReviews(records)
  /\ pc' = "serialized"
  /\ UNCHANGED <<text, tok, existingCsv, newCsv, merged, remerged, reviewsOf,
                 records, extracted,
                 windowVars, boardVars>>

Extract ==
  /\ pc = "serialized"
  /\ extracted' = parseReviews(serialized)
  /\ pc' = "extracted"
  /\ UNCHANGED <<text, tok, existingCsv, newCsv, merged, remerged, reviewsOf,
                 records, serialized,
                 windowVars, boardVars>>

NextRoundTrip == Serialize \/ Extract

SpecRoundTrip == InitRoundTrip /\ [][NextRoundTrip]_vars

----------------------------------------------------------------------------
(* The date resolver on its own: one date cell is resolved by parseDate    *)
(* of utils/csvFilter.ts or by the copy in utils/comparisonRow.ts          *)

\* offsets of local time from UTC, in seconds: UTC and UTC+7
TimeZones == {0, 7 * 60 * 60}

Hosts == {[timezone |-> z, hyphenDates |-> b] : z \in TimeZones, b \in BOOLEAN}

\* a missing referenceDate, and 2026-03-01T08:30:00Z
References == {[given |-> FALSE, time |-> 0], [given |-> TRUE, time |-> 1772353800]}

\* date cells.  Ten-digit cells stay below 2^31 and counts stay small, so that
\* every instant is an integer the model checker can hold.
\*   1767225600             epoch seconds of 2026-01-01T00:00:00Z
\*   03/04/2025             
\*   3-4-2025               
\*   31/13/2025             no month 13
\*   12/31/2025             no month 31
\*   2026-01-10             
\*   2026-01-10 15:14:45    
\*   2026-01-10T15:14:45Z   
\*   3 weeks ago            
\*   8 hours ago            
\*   a day ago              
\*    20 DAYS ago           
\*   2 Months ago           
\*   1 year ago             
\*   2 days 5 hours         two units
\*   03/04/2025 Thursday    a numeric date and the substring day
\*   yesterday              
\*   N/A                    
\*   (empty)                
DateTexts ==
  {
    <<"1", "7", "6", "7", "2", "2", "5", "6", "0", "0">>,
    <<"0", "3", "/", "0", "4", "/", "2", "0", "2", "5">>,
    <<"3", "-", "4", "-", "2", "0", "2", "5">>,
    <<"3", "1", "/", "1", "3", "/", "2", "0", "2", "5">>,
    <<"1", "2", "/", "3", "1", "/", "2", "0", "2", "5">>,
    <<"2", "0", "2", "6", "-", "0", "1", "-", "1", "0">>,
    <<"2", "0", "2", "6", "-", "0", "1", "-", "1", "0", SPACE, "1", "5", ":", "1", "4", ":", "4", "5">>,
    <<"2", "0", "2", "6", "-", "0", "1", "-", "1", "0", "T", "1", "5", ":", "1", "4", ":", "4", "5", "Z">>,
    <<"3", SPACE, "w", "e", "e", "k", "s", SPACE, "a", "g", "o">>,
    <<"8", SPACE, "h", "o", "u", "r", "s", SPACE, "a", "g", "o">>,
    <<"a", SPACE, "d", "a", "y", SPACE, "a", "g", "o">>,
    <<SPACE, "2", "0", SPACE, "D", "A", "Y", "S", SPACE, "a", "g", "o", SPACE>>,
    <<"2", SPACE, "M", "o", "n", "t", "h", "s", SPACE, "a", "g", "o">>,
    <<"1", SPACE, "y", "e", "a", "r", SPACE, "a", "g", "o">>,
    <<"2", SPACE, "d", "a", "y", "s", SPACE, "5", SPACE, "h", "o", "u", "r", "s">>,
    <<"0", "3", "/", "0", "4", "/", "2", "0", "2", "5", SPACE, "T", "h", "u", "r", "s", "d", "a", "y">>,
    <<"y", "e", "s", "t", "e", "r", "d", "a", "y">>,
    <<"N", "/", "A">>,
    <<>> }

InitDate ==
  /\ pc = "date"
  /\ dateText \in DateTexts
  /\ reference \in References
  /\ host \in Hosts
  /\ resolved = idle
  /\ sheet = idle /\ csvInput = idle /\ reviewList = idle /\ reviewListAlt = idle
  /\ args = idle /\ clock = idle /\ filtered = idle
  /\ IngestIdle
  /\ BoardIdle

\* parseDate(dateStr, referenceDate) of utils/csvFilter.ts
ParseDate ==
  /\ pc = "date"
  /\ resolved' = parseDate(dateText, reference, host)
  /\ pc' = "parseDate"
  /\ UNCHANGED <<host, dateText, reference, sheet, csvInput, reviewList, reviewListAlt,
                 args, clock, filtered, ingestVars, boardVars>>

\* parseDate(dateStr, referenceDate) of utils/comparisonRow.ts
ComparisonRowParseDate ==
  /\ pc = "date"
  /\ resolved' = comparisonRowParseDate(dateText, reference, host)
  /\ pc' = "comparisonRowParseDate"
  /\ UNCHANGED <<host, dateText, reference, sheet, csvInput, reviewList, reviewListAlt,
                 args, clock, filtered, ingestVars, boardVars>>

NextDate == ParseDate \/ ComparisonRowParseDate

SpecDate == InitDate /\ [][NextDate]_vars

----------------------------------------------------------------------------
(* An extraction: a sheet of four columns (author, date, content, rating   *)
(* in this order, under one of six header rows) is written as CSV and read *)
(* by parseReviews; under the author or the reviewer convention the same   *)
(* rows are then read under the other convention                           *)

\* the author convention
authorHeader ==
  <<<<"a", "u", "t", "h", "o", "r">>, <<"c", "o", "m", "m", "e", "n", "t", "e", "d", "_", "a", "t">>, <<"c", "o", "n", "t", "e", "n", "t">>, <<"r", "a", "t", "i", "n", "g">>>>

\* the reviewer convention
reviewerHeader ==
  <<<<"R", "e", "v", "i", "e", "w", "e", "r">>, <<"T", "i", "m", "e">>, <<"C", "o", "m", "m", "e", "n", "t">>, <<"R", "a", "t", "i", "n", "g">>>>

\* no author column
noAuthorHeader ==
  <<<<"n", "a", "m", "e">>, <<"d", "a", "t", "e">>, <<"c", "o", "n", "t", "e", "n", "t">>, <<"r", "a", "t", "i", "n", "g">>>>

\* no content column
noContentHeader ==
  <<<<"a", "u", "t", "h", "o", "r">>, <<"d", "a", "t", "e">>, <<"t", "e", "x", "t">>, <<"r", "a", "t", "i", "n", "g">>>>

\* no rating column: an overall rating is not one
noRatingHeader ==
  <<<<"a", "u", "t", "h", "o", "r">>, <<"d", "a", "t", "e">>, <<"c", "o", "n", "t", "e", "n", "t">>, <<"O", "v", "e", "r", "a", "l", "l", SPACE, "R", "a", "t", "i", "n", "g">>>>

\* no date column and no source column
noDateHeader ==
  <<<<"a", "u", "t", "h", "o", "r">>, <<"w", "h", "e", "n">>, <<"c", "o", "n", "t", "e", "n", "t">>, <<"r", "a", "t", "i", "n", "g">>>>

\* a column whose label is no date label in the place of the date column
atmosphereHeader ==
  <<<<"a", "u", "t", "h", "o", "r">>, <<"A", "t", "m", "o", "s", "p", "h", "e", "r", "e">>, <<"c", "o", "n", "t", "e", "n", "t">>, <<"r", "a", "t", "i", "n", "g">>>>

\* a column whose label only contains a date label in the place of the date column
updatedDateHeader ==
  <<<<"a", "u", "t", "h", "o", "r">>, <<SPACE, "U", "p", "d", "a", "t", "e", "d", "_", "D", "a", "t", "e", SPACE>>, <<"c", "o", "n", "t", "e", "n", "t">>, <<"r", "a", "t", "i", "n", "g">>>>

\* an overall rating before the rating column, in the place of the date column
overallFirstHeader ==
  <<<<"a", "u", "t", "h", "o", "r">>, <<"O", "v", "e", "r", "a", "l", "l", SPACE, "R", "a", "t", "i", "n", "g">>, <<"c", "o", "n", "t", "e", "n", "t">>, <<"r", "a", "t", "i", "n", "g">>>>

SheetHeaders ==
  {authorHeader, reviewerHeader, noAuthorHeader, noContentHeader, noRatingHeader,
   noDateHeader, atmosphereHeader, updatedDateHeader, overallFirstHeader}

\* rating cells:  5  10  4.5  5/5  "5 stars"  N/A  (empty)  " Rated 4"
RatingCells ==
  { <<"5">>,
    <<"1", "0">>,
    <<"4", ".", "5">>,
    <<"5", "/", "5">>,
    <<"5", SPACE, "s", "t", "a", "r", "s">>,
    <<"N", "/", "A">>,
    <<>>,
    <<SPACE, "R", "a", "t", "e", "d", SPACE, "4">> }

\* data rows: a full row for each rating cell, a row with a blank author and a
\* blank date, a row that ends after its second cell and a row of one cell
SheetRows ==
  {<<<<"A", "l">>, <<"2", "0", "2", "6", "-", "0", "1", "-", "1", "0">>, <<"o", "k">>, r>> : r \in RatingCells}
  \cup { <<<<>>, <<>>, <<"o", "k">>, <<"3">>>>,
         <<<<"A", "l">>, <<"x">>>>,
         <<<<"A", "l">>>> }

\* most data rows of a sheet
MaxSheetRows == 2

Sheets ==
  {[header |-> h, rows |-> rows] :
     h \in SheetHeaders, rows \in UNION {[1..n -> SheetRows] : n \in 0..MaxSheetRows}}

\* a sheet as a file: cells joined by commas, lines by LF (no cell of a sheet
\* needs quoting)
writeSheet(sh) ==
  join([k \in 1..(Len(sh.rows) + 1) |->
          join(IF k = 1 THEN sh.header ELSE sh.rows[k - 1], <<COMMA>>)], <<LF>>)

\* the same rows under the other of the two header conventions
otherConvention(sh) ==
  [sh EXCEPT !.header = IF @ = authorHeader THEN reviewerHeader ELSE authorHeader]

InitExtract ==
  /\ pc = "sheet"
  /\ sheet \in Sheets
  /\ csvInput = writeSheet(sheet)
  /\ reviewList = idle /\ reviewListAlt = idle
  /\ host = idle /\ dateText = idle /\ reference = idle /\ resolved = idle
  /\ args = idle /\ clock = idle /\ filtered = idle
  /\ IngestIdle
  /\ BoardIdle

ExtractReviews ==
  /\ pc = "sheet"
  /\ reviewList' = parseReviews(csvInput)
  /\ pc' = "reviews"
  /\ UNCHANGED <<host, dateText, reference, resolved, sheet, csvInput, reviewListAlt,
                 args, clock, filtered, ingestVars, boardVars>>

ExtractOtherConvention ==
  /\ pc = "reviews"
  /\ sheet.header \in {authorHeader, reviewerHeader}
  /\ reviewListAlt' = parseReviews(writeSheet(otherConvention(sheet)))
  /\ pc' = "conventions"
  /\ UNCHANGED <<host, dateText, reference, resolved, sheet, csvInput, reviewList,
                 args, clock, filtered, ingestVars, boardVars>>

NextExtract == ExtractReviews \/ ExtractOtherConvention

SpecExtract == InitExtract /\ [][NextExtract]_vars

----------------------------------------------------------------------------
(* A filter call: a sheet with a date column named commented_at, Time or   *)
(* Date Posted (which is no date column) is written as CSV and handed to   *)
(* one of the three filters, which reads the clock                         *)

\* a header whose date label is not exactly commented_at, time or date
datePostedHeader ==
  <<<<"a", "u", "t", "h", "o", "r">>, <<"D", "a", "t", "e", SPACE, "P", "o", "s", "t", "e", "d">>, <<"c", "o", "n", "t", "e", "n", "t">>, <<"r", "a", "t", "i", "n", "g">>>>

FilterHeaders == {authorHeader, reviewerHeader, datePostedHeader}

\* date cells of the filtered sheets
FilterDates ==
  { <<"2", "0", SPACE, "d", "a", "y", "s", SPACE, "a", "g", "o">>,
    <<"4", "0", SPACE, "d", "a", "y", "s", SPACE, "a", "g", "o">>,
    <<"9", SPACE, "d", "a", "y", "s", SPACE, "a", "g", "o">>,
    <<"7", SPACE, "d", "a", "y", "s", SPACE, "a", "g", "o">>,
    <<"2", "0", "2", "6", "-", "0", "1", "-", "1", "0">>,
    <<"N", "/", "A">>,
    <<>> }

\* data rows: one for each date cell, and a row that ends before the date column
FilterRows ==
  {<<<<"A", "l">>, d, <<"o", "k">>, <<"5">>>> : d \in FilterDates} \cup { <<<<"A", "l">>>> }

\* most data rows of a filtered sheet
MaxFilterRows == 2

FilterSheets ==
  {[header |-> h, rows |-> rows] :
     h \in FilterHeaders, rows \in UNION {[1..n -> FilterRows] : n \in 0..MaxFilterRows}}

\* hosts of the filters: one in each time zone
FilterHosts == {h \in Hosts : h.hyphenDates}

\* clock readings: 2026-01-11T12:00:00Z, and 2026-02-28T20:00:00Z, which is in
\* March in the time zone UTC+7
Clocks == {SAMPLE_DATA_ANCHOR_DATE, 1772308800}

\* windows of filterCsvByTime: 'all', 0.25 month and 1 month
MonthCounts ==
  {[all |-> TRUE, hundredths |-> 0], [all |-> FALSE, hundredths |-> 25],
   [all |-> FALSE, hundredths |-> 100]}

\* (start, end) of filterCsvByTimeRange in hundredths of a month:
\* (0.5, 0.25), (2, 1) and the empty range (1, 1)
MonthRanges == {<<50, 25>>, <<200, 100>>, <<100, 100>>}

\* (start, end) of filterCsvByDaysRange in days
DayRanges == {<<7, 0>>, <<14, 7>>, <<0, 7>>}

InitFilter ==
  /\ pc = "csv"
  /\ sheet \in FilterSheets
  /\ csvInput = writeSheet(sheet)
  /\ host \in FilterHosts
  /\ args = idle /\ clock = idle /\ filtered = idle
  /\ dateText = idle /\ reference = idle /\ resolved = idle
  /\ reviewList = idle /\ reviewListAlt = idle
  /\ IngestIdle
  /\ BoardIdle

FilterCsvByTime ==
  /\ pc \in {"csv", "text"}
  /\ \E months \in MonthCounts, t \in Clocks :
       /\ args' = [months |-> months]
       /\ clock' = t
       /\ filtered' = filterCsvByTime(csvInput, months, t, host)
  /\ pc' = "filterCsvByTime"
  /\ UNCHANGED <<host, dateText, reference, resolved, sheet, csvInput, reviewList,
                 reviewListAlt, ingestVars, boardVars>>

FilterCsvByTimeRange ==
  /\ pc = "csv"
  /\ \E range \in MonthRanges, t \in Clocks :
       /\ args' = [start |-> range[1], end |-> range[2]]
       /\ clock' = t
       /\ filtered' = filterCsvByTimeRange(csvInput, range[1], range[2], t, host)
  /\ pc' = "filterCsvByTimeRange"
  /\ UNCHANGED <<host, dateText, reference, resolved, sheet, csvInput, reviewList,
                 reviewListAlt, ingestVars, boardVars>>

FilterCsvByDaysRange ==
  /\ pc = "csv"
  /\ \E range \in DayRanges, t \in Clocks :
       /\ args' = [start |-> range[1], end |-> range[2]]
       /\ clock' = t
       /\ filtered' = filterCsvByDaysRange(csvInput, range[1], range[2], t, host)
  /\ pc' = "filterCsvByDaysRange"
  /\ UNCHANGED <<host, dateText, reference, resolved, sheet, csvInput, reviewList,
                 reviewListAlt, ingestVars, boardVars>>

\* the same filter is called a second time with the same text and the same
\* window arguments; the call reads the clock again, which has not gone back
FilterAgain ==
  /\ pc \in {"filterCsvByTime", "filterCsvByTimeRange", "filterCsvByDaysRange"}
  /\ \E t \in {u \in Clocks : u >= clock} :
       again' =
         [call |-> pc,
          clock |-> t,
          filtered |->
            IF pc = "filterCsvByTime" THEN filterCsvByTime(csvInput, args.months, t, host)
            ELSE IF pc = "filterCsvByTimeRange"
              THEN filterCsvByTimeRange(csvInput, args.start, args.end, t, host)
            ELSE filterCsvByDaysRange(csvInput, args.start, args.end, t, host)]
  /\ pc' = "again"
  /\ UNCHANGED <<windowVars, ingestVars, located, kpis, keys, board>>

\* the time filters of the dashboard: 'all', 0.25, 1, 3 and 6 months
TimeFilters ==
  {[all |-> TRUE, hundredths |-> 0]}
  \cup {[all |-> FALSE, hundredths |-> n] : n \in {25, 100, 300, 600}}

ComparisonModes == {"month", "week"}

\* the dashboard computes its kpis from the text of the dataset, all filter
\* calls reading the same clock
Kpis ==
  /\ pc = "csv"
  /\ \E timeFilter \in TimeFilters, comparisonMode \in ComparisonModes, t \in Clocks :
       /\ args' = [timeFilter |-> timeFilter, comparisonMode |-> comparisonMode]
       /\ clock' = t
       /\ kpis' = kpisOf(csvInput, timeFilter, comparisonMode, t, host)
  /\ pc' = "kpis"
  /\ UNCHANGED <<host, dateText, reference, resolved, sheet, csvInput, reviewList,
                 reviewListAlt, filtered, ingestVars, again, located, keys, board>>

NextFilter == FilterCsvByTime \/ FilterCsvByTimeRange \/ FilterCsvByDaysRange

SpecFilter == InitFilter /\ [][NextFilter]_vars

----------------------------------------------------------------------------
(* The dashboard over one dataset: repeated filter calls and the kpis        *)

\* most data rows of the dataset of the dashboard
MaxDatasetRows == 1

DatasetSheets == {sh \in FilterSheets : Len(sh.rows) <= MaxDatasetRows}

InitDataset ==
  /\ pc = "csv"
  /\ sheet \in DatasetSheets
  /\ csvInput = writeSheet(sheet)
  /\ host \in FilterHosts
  /\ args = idle /\ clock = idle /\ filtered = idle
  /\ dateText = idle /\ reference = idle /\ resolved = idle
  /\ reviewList = idle /\ reviewListAlt = idle
  /\ IngestIdle
  /\ BoardIdle

NextRepeat ==
  FilterCsvByTime \/ FilterCsvByTimeRange \/ FilterCsvByDaysRange \/ FilterAgain

SpecRepeat == InitDataset /\ [][NextRepeat]_vars

NextKpis == Kpis

SpecKpis == InitDataset /\ [][NextKpis]_vars

----------------------------------------------------------------------------
(* Header discovery: the header row parseReviews locates and the header row  *)
(* the filters locate in one text                                            *)

\* most blank lines before the first row of an export
MaxLeadingBlanks == 10

\* most metadata rows between the blank lines and the header line
MaxPreambleRows == 10

metadataLine == <<"V", "e", "n", "u", "e", COMMA, "C", "a", "f", "e">>

HeaderLines ==
  { <<"a", "u", "t", "h", "o", "r", COMMA, "c", "o", "m", "m", "e", "n", "t", "e", "d", "_", "a", "t", COMMA, "c", "o", "n", "t", "e", "n", "t", COMMA, "r", "a", "t", "i", "n", "g">>,
    <<SPACE, "R", "e", "v", "i", "e", "w", "e", "r", SPACE, COMMA, "T", "i", "m", "e", COMMA, "C", "o", "m", "m", "e", "n", "t", COMMA, "R", "a", "t", "i", "n", "g">>,
    <<"n", "a", "m", "e", COMMA, "w", "h", "e", "n", COMMA, "t", "e", "x", "t", COMMA, "s", "t", "a", "r", "s">>,
    <<"C", "o", "-", "A", "u", "t", "h", "o", "r", "s", SPACE, COMMA, "D", "a", "t", "e">> }

dataLine == <<"A", "l", COMMA, "2", "0", "2", "6", "-", "0", "1", "-", "1", "0", COMMA, "o", "k", COMMA, "5">>

RECURSIVE repeat(_, _)
repeat(s, n) == IF n = 0 THEN <<>> ELSE s \o repeat(s, n - 1)

\* exports: blank lines, metadata rows, a header line and one data row
HeaderTexts ==
  {repeat(<<LF>>, b) \o repeat(metadataLine \o <<LF>>, m) \o h \o <<LF>> \o dataLine :
     b \in 0..MaxLeadingBlanks, m \in 0..MaxPreambleRows, h \in HeaderLines}

InitHeader ==
  /\ pc = "text"
  /\ csvInput \in HeaderTexts
  /\ host \in FilterHosts
  /\ located = idle
  /\ again = idle /\ kpis = idle /\ keys = idle /\ board = idle
  /\ dateText = idle /\ reference = idle /\ resolved = idle
  /\ sheet = idle /\ reviewList = idle /\ reviewListAlt = idle
  /\ args = idle /\ clock = idle /\ filtered = idle
  /\ IngestIdle

\* the labels read off a header row: row.map(h => h.toLowerCase().trim())
labelsOf(row) == [k \in DOMAIN row |-> trim(toLowerCase(row[k]))]

\* parseReviews up to the labels of the header row it chooses
ParseReviewsHeader ==
  /\ pc = "text"
  /\ Truthy(csvInput)
  /\ Len(parseCSV(csvInput)) >= 2
  /\ LET rows == parseCSV(csvInput)
     IN  located' = [parseReviews |-> [index |-> headerRowIdx(rows),
                                       header |-> labelsOf(rows[headerRowIdx(rows)])]]
  /\ pc' = "parseReviews"
  /\ UNCHANGED <<windowVars, ingestVars, again, kpis, keys, board>>

\* a filter up to the labels of the header row it chooses
FilterHeader ==
  /\ pc = "parseReviews"
  /\ Len(parseCSV(trim(csvInput))) >= 2
  /\ LET rows == parseCSV(trim(csvInput))
     IN  located' = [parseReviews |-> located.parseReviews,
                     filter |-> [index |-> findHeaderRowIndex(rows),
                                 columns |-> labelsOf(rows[findHeaderRowIndex(rows)])]]
  /\ pc' = "headers"
  /\ UNCHANGED <<windowVars, ingestVars, again, kpis, keys, board>>

NextHeader == ParseReviewsHeader \/ FilterHeader \/ FilterCsvByTime

SpecHeader == InitHeader /\ [][NextHeader]_vars

----------------------------------------------------------------------------
(* Fingerprints: fingerprintNoDate of two reviews                            *)

\* authors and contents with and without the separator of the fingerprint
FingerprintAuthors == { <<"a", "|", "b">>, <<"a">>, <<SPACE, "A">> }

FingerprintContents == { <<"c">>, <<"b", "|", "c">>, <<"C", SPACE, SPACE>> }

FingerprintRatings == {4, 5}

FingerprintRecords ==
  { [author |-> a, date |-> <<>>, content |-> c, rating |-> r, source |-> strGoogle] :
      a \in FingerprintAuthors, c \in FingerprintContents, r \in FingerprintRatings }

InitFingerprint ==
  /\ pc = "pair"
  /\ records \in [1..2 -> FingerprintRecords]
  /\ keys = idle
  /\ again = idle /\ located = idle /\ kpis = idle /\ board = idle
  /\ serialized = idle /\ extracted = idle
  /\ text = idle /\ tok = tokInit
  /\ existingCsv = idle /\ newCsv = idle /\ merged = idle /\ remerged = idle
  /\ reviewsOf = idle
  /\ WindowIdle

\* the merge computes the fingerprint of each review
Fingerprint ==
  /\ pc = "pair"
  /\ keys' = [k \in DOMAIN records |-> fingerprintNoDate(records[k])]
  /\ pc' = "fingerprints"
  /\ UNCHANGED <<windowVars, ingestVars, again, located, kpis, board>>

NextFingerprint == Fingerprint

SpecFingerprint == InitFingerprint /\ [][NextFingerprint]_vars

----------------------------------------------------------------------------
(* useComparisonData: the data list and the analyze handlers                 *)

\* the two handler calls that may be in flight
Calls == {"call1", "call2"}

\* the id lists the groups of the dashboard hand to handleAnalyzeGroup
GroupIds == {<<"a", "b">>, <<"c">>}

\* the ids handed to handleAnalyzeItem
ItemIds == {"a", "c"}

\* a row of the comparison as fetchComparison loaded it
loadedRow(id) == [id |-> id, from |-> "loaded", empty |-> FALSE]

\* the data list after the initial load: nothing, or rows of a and c
LoadedData == {<<>>, <<loadedRow("a"), loadedRow("c")>>}

noCall == [kind |-> "none", ids |-> <<>>, stage |-> "idle", data |-> <<>>]

idsOf(call) == {call.ids[k] : k \in DOMAIN call.ids}

\* const idx = list.findIndex((r) => r.id === newRow.id);
\* if (idx !== -1) list[idx] = newRow; else list.unshift(newRow);
putRow(list, newRow) ==
  LET idx == findIndex({k \in DOMAIN list : list[k].id = newRow.id})
  IN  IF idx # 0 THEN [list EXCEPT ![idx] = newRow] ELSE <<newRow>> \o list

\* newResults.forEach((newRow) => ...) on updatedData
RECURSIVE putRows(_, _)
putRows(list, newResults) ==
  IF newResults = <<>> THEN list
  ELSE putRows(putRow(list, Head(newResults)), Tail(newResults))

InitBoard ==
  /\ pc = "board"
  /\ \E ready \in BOOLEAN, loaded \in LoadedData :
       board = [apiReady |-> ready,
                data |-> IF ready THEN loaded ELSE <<>>,
                error |-> ~ready,
                calls |-> [c \in Calls |-> noCall]]
  /\ again = idle /\ located = idle /\ kpis = idle /\ keys = idle
  /\ WindowIdle
  /\ IngestIdle

\* handleAnalyzeGroup up to its first await; the call keeps the data of the
\* render it was created in
HandleAnalyzeGroup ==
  /\ pc = "board"
  /\ \E c \in Calls, ids \in GroupIds :
       /\ board.calls[c].stage = "idle"
       /\ board' =
            IF ~board.apiReady
            THEN [board EXCEPT !.error = TRUE,
                               !.calls[c] = [kind |-> "group", ids |-> ids,
                                             stage |-> "refused", data |-> board.data]]
            ELSE [board EXCEPT !.error = FALSE,
                               !.calls[c] = [kind |-> "group", ids |-> ids,
                                             stage |-> "awaiting", data |-> board.data]]
  /\ UNCHANGED <<pc, windowVars, ingestVars, again, located, kpis, keys>>

\* handleAnalyzeGroup from the end of the analysis to the await of the save:
\* each id has a result row or an empty row; setData(updatedData)
AnalyzeGroupMerge ==
  /\ pc = "board"
  /\ \E c \in Calls :
       /\ board.calls[c].kind = "group" /\ board.calls[c].stage = "awaiting"
       /\ \E empties \in [DOMAIN board.calls[c].ids -> BOOLEAN] :
            LET newResults == [k \in DOMAIN board.calls[c].ids |->
                                 [id |-> board.calls[c].ids[k], from |-> c,
                                  empty |-> empties[k]]]
                updatedData == putRows(board.calls[c].data, newResults)
            IN  board' = [board EXCEPT !.data = updatedData,
                                       !.calls[c].stage = "saving"]
  /\ UNCHANGED <<pc, windowVars, ingestVars, again, located, kpis, keys>>

\* handleAnalyzeItem up to its first await
HandleAnalyzeItem ==
  /\ pc = "board"
  /\ \E c \in Calls, itemId \in ItemIds :
       /\ board.calls[c].stage = "idle"
       /\ board' =
            IF ~board.apiReady
            THEN [board EXCEPT !.error = TRUE,
                               !.calls[c] = [kind |-> "item", ids |-> <<itemId>>,
                                             stage |-> "refused", data |-> board.data]]
            ELSE [board EXCEPT !.error = FALSE,
                               !.calls[c] = [kind |-> "item", ids |-> <<itemId>>,
                                             stage |-> "awaiting", data |-> board.data]]
  /\ UNCHANGED <<pc, windowVars, ingestVars, again, located, kpis, keys>>

\* handleAnalyzeItem from the end of the analysis to the await of the save:
\* setData((prev) => ...) with the result row or the empty row
AnalyzeItemSetData ==
  /\ pc = "board"
  /\ \E c \in Calls, empty \in BOOLEAN :
       /\ board.calls[c].kind = "item" /\ board.calls[c].stage = "awaiting"
       /\ board' = [board EXCEPT
                      !.data = putRow(@, [id |-> board.calls[c].ids[1], from |-> c,
                                          empty |-> empty]),
                      !.calls[c].stage = "saving"]
  /\ UNCHANGED <<pc, windowVars, ingestVars, again, located, kpis, keys>>

\* the save settles and the handler returns; a failed save sets the error
AnalyzeReturn ==
  /\ pc = "board"
  /\ \E c \in Calls, saved \in BOOLEAN :
       /\ board.calls[c].stage = "saving"
       /\ board' = [board EXCEPT !.error = IF saved THEN @ ELSE TRUE,
                                 !.calls[c].stage = "done"]
  /\ UNCHANGED <<pc, windowVars, ingestVars, again, located, kpis, keys>>

NextBoard ==
  \/ HandleAnalyzeGroup \/ AnalyzeGroupMerge \/ HandleAnalyzeItem \/ AnalyzeItemSetData
  \/ AnalyzeReturn

SpecBoard == InitBoard /\ [][NextBoard]_vars

----------------------------------------------------------------------------
(* The whole model                                                         *)

Init == InitTok \/ InitMerge \/ InitRoundTrip \/ InitDate \/ InitExtract
  \/ InitFilter \/ InitHeader \/ InitFingerprint \/ InitBoard

Next ==
  \/ TokScan \/ TokReturn \/ Merge \/ Reimport \/ Serialize \/ Extract
  \/ ParseDate \/ ComparisonRowParseDate \/ ExtractReviews \/ ExtractOtherConvention
  \/ FilterCsvByTime \/ FilterCsvByTimeRange \/ FilterCsvByDaysRange \/ FilterAgain
  \/ ParseReviewsHeader \/ FilterHeader \/ Kpis \/ Fingerprint
  \/ HandleAnalyzeGroup \/ AnalyzeGroupMerge \/ HandleAnalyzeItem \/ AnalyzeItemSetData
  \/ AnalyzeReturn

Spec == Init /\ [][Next]_vars

----------------------------------------------------------------------------
(* Tokenizer properties                                                    *)

\* the number of double quotes among the first k characters of t
quotesBefore(t, k) == Cardinality({j \in 1..k : t[j] = QUOTE})

\* some CR or LF of t stands inside quotes
QuotedLineBreak(t) ==
  \E k \in DOMAIN t : t[k] \in {CR, LF} /\ quotesBefore(t, k - 1) % 2 = 1

\* t with every line terminator (CR LF, lone CR, lone LF) written as eol
RECURSIVE withLineEnding(_, _)
withLineEnding(t, eol) ==
  IF t = <<>> THEN <<>>
  ELSE IF Len(t) >= 2 /\ t[1] = CR /\ t[2] = LF
  THEN eol \o withLineEnding(SubSeq(t, 3, Len(t)), eol)
  ELSE IF t[1] \in {CR, LF} THEN eol \o withLineEnding(Tail(t), eol)
  ELSE <<t[1]>> \o withLineEnding(Tail(t), eol)

C9_SameRows ==
  (pc = "done" /\ ~QuotedLineBreak(text)) =>
    \A eol \in LineEndings : parseCSV(withLineEnding(text, eol)) = tok.rows

C9_CrlfStep ==
  (pc = "scan" /\ ~tok.inQuotes /\ charAt(text, tok.i) = CR /\ charAt(text, tok.i + 1) = LF)
    => /\ tok'.i = tok.i + 2
       /\ tok'.rows = Append(tok.rows, Append(tok.currentRow, tok.currentCell))
       /\ tok'.currentRow = <<>> /\ tok'.currentCell = <<>>

\* C9: a text without quoted line breaks tokenizes to the same rows whether each
\* of its line terminators is written as LF, as CRLF or as a lone CR, and a CR
\* immediately followed by LF is consumed in one step that ends exactly one row.
C9_LineEndingEquivalence == [](C9_SameRows) /\ [][C9_CrlfStep]_vars

\* a scanned text with a CRLF and another terminator outside quotes, two rows or more
C9_Witness ==
  /\ pc = "done" /\ ~QuotedLineBreak(text)
  /\ includes(text, <<CR, LF>>)
  /\ Len(tok.rows) >= 2
  /\ withLineEnding(text, <<CR>>) # withLineEnding(text, <<LF>>)

C10_LiteralInQuotes ==
  (pc = "scan" /\ tok.i <= Len(text) /\ tok.inQuotes /\ text[tok.i] \in {COMMA, CR, LF})
    => tok' = [tok EXCEPT !.currentCell = Append(@, text[tok.i]), !.i = @ + 1]

C10_DoubledQuote ==
  (pc = "scan" /\ tok.inQuotes /\ charAt(text, tok.i) = QUOTE /\ charAt(text, tok.i + 1) = QUOTE)
    => tok' = [tok EXCEPT !.currentCell = Append(@, QUOTE), !.i = @ + 2]

\* the tokenizer is inside quotes and no quote follows
UnclosedQuote ==
  /\ pc = "scan" /\ tok.inQuotes
  /\ \A k \in tok.i..Len(text) : text[k] # QUOTE

C10_UnclosedAbsorbs ==
  UnclosedQuote =>
    LET end == tokRun(text, tok)
        rest == SubSeq(text, tok.i, Len(text))
    IN  /\ end.inQuotes
        /\ end.rows = tok.rows /\ end.currentRow = tok.currentRow
        /\ end.currentCell = tok.currentCell \o rest
        /\ rest # <<>> =>
             tokFlush(end).rows = Append(tok.rows, Append(tok.currentRow, tok.currentCell \o rest))

\* C10: inside quotes a comma, CR or LF is appended to the current cell and ends
\* neither the cell nor the row; a doubled quote inside quotes appends one quote
\* and stays inside quotes; after a quote that is never closed the tokenizer stays
\* inside quotes to the end of the input and the rest of the text is the tail of
\* the last cell of the last row.
C10_QuoteHandling ==
  /\ [][C10_LiteralInQuotes]_vars
  /\ [][C10_DoubledQuote]_vars
  /\ [](C10_UnclosedAbsorbs)

\* inside an unclosed quote, with a comma and a line break still to come
C10_Witness ==
  /\ UnclosedQuote
  /\ \E k \in tok.i..Len(text) : text[k] = COMMA
  /\ \E k \in tok.i..Len(text) : text[k] \in {CR, LF}
  /\ tok.rows # <<>>

----------------------------------------------------------------------------
(* Merge properties                                                        *)

\* r and q agree in everything but the date
SameButDate(r, q) ==
  /\ r.author = q.author /\ r.content = q.content
  /\ r.rating = q.rating /\ r.source = q.source

\* every review of before is in after at the same index, the date apart
KeptInPlace(before, after) ==
  /\ Len(after) >= Len(before)
  /\ \A i \in DOMAIN before : SameButDate(before[i], after[i])

\* C1: every review extracted from existingCsv is among the reviews extracted
\* from the merge result, at the same index and with the same author, content,
\* rating and source; the same holds for the second import into that result.
C1_NeverDeletes ==
  /\ pc \in {"merged", "reimported"} => KeptInPlace(reviewsOf.existing, reviewsOf.merged)
  /\ pc = "reimported" => KeptInPlace(reviewsOf.merged, reviewsOf.remerged)

\* two stored reviews, one of them re-dated by the import, and a review appended
C1_Witness ==
  /\ pc = "merged"
  /\ Len(reviewsOf.existing) >= 2
  /\ Len(reviewsOf.merged) > Len(reviewsOf.existing)
  /\ \E i \in DOMAIN reviewsOf.existing :
       reviewsOf.merged[i].date # reviewsOf.existing[i].date

\* the fingerprints of a list of reviews
keysOf(reviews) == {fingerprintNoDate(reviews[k]) : k \in DOMAIN reviews}

HasRowsButNoReviews(csv) ==
  /\ Truthy(csv)
  /\ Len(parseCSV(csv)) >= 2
  /\ parseReviews(csv) = <<>>

\* C3: an existing CSV that has data rows but yields no review is returned
\* unchanged, whatever the new CSV and whatever the line-ending convention.
C3_CorruptPreserved ==
  (pc = "merged" /\ HasRowsButNoReviews(existingCsv)) => merged = existingCsv

\* C4: with an empty or missing existing CSV the result is the new CSV itself
\* (the empty string when that is empty or missing too); with an empty or
\* missing new CSV the result is the existing CSV itself.
C4_EmptyInputVerbatim ==
  pc = "merged" =>
    /\ (~Truthy(existingCsv) /\ Truthy(newCsv)) => merged = newCsv
    /\ (~Truthy(existingCsv) /\ ~Truthy(newCsv)) => merged = <<>>
    /\ (Truthy(existingCsv) /\ ~Truthy(newCsv)) => merged = existingCsv

\* nothing stored and an imported file that is not in canonical form: kept as it is
C4_Witness ==
  /\ pc = "merged"
  /\ ~Truthy(existingCsv)
  /\ reviewsOf.new # <<>>
  /\ merged = newCsv
  /\ merged # serializeReviews(reviewsOf.new)

\* C5 as stated: a non-empty new CSV that yields no review leaves the result equal
\* to the existing CSV.
C5_AsStated ==
  (pc = "merged" /\ Truthy(newCsv) /\ reviewsOf.new = <<>>) => merged = existingCsv

\* C5 amended: when the existing CSV is non-empty and the new CSV is non-empty
\* but yields no review, the result is the existing CSV, character for character.
C5_NoNewReviews ==
  (pc = "merged" /\ Truthy(existingCsv) /\ Truthy(newCsv) /\ reviewsOf.new = <<>>)
    => merged = existingCsv

\* stored reviews whose text is not what serializeReviews would write, and a new
\* file of an unknown schema
C5_Witness ==
  /\ pc = "merged"
  /\ reviewsOf.existing # <<>>
  /\ existingCsv # serializeReviews(reviewsOf.existing)
  /\ Truthy(newCsv) /\ reviewsOf.new = <<>>
  /\ Len(parseCSV(newCsv)) >= 2
  /\ merged = existingCsv

\* the words of s: its maximal runs of non-whitespace characters
RECURSIVE wordsOf(_, _)
wordsOf(s, word) ==
  IF s = <<>> THEN (IF word = <<>> THEN <<>> ELSE <<word>>)
  ELSE IF IsSpace(Head(s))
  THEN (IF word = <<>> THEN <<>> ELSE <<word>>) \o wordsOf(Tail(s), <<>>)
  ELSE wordsOf(Tail(s), Append(word, Head(s)))

\* a and b differ at most in letter casing and in the length of whitespace runs
SameUpToCaseAndSpacing(a, b) == wordsOf(toLowerCase(a), <<>>) = wordsOf(toLowerCase(b), <<>>)

\* the same rating, author and content alike up to casing and spacing
Alike(r, q) ==
  /\ r.rating = q.rating
  /\ SameUpToCaseAndSpacing(r.author, q.author)
  /\ SameUpToCaseAndSpacing(r.content, q.content)

minOf(S) == CHOOSE k \in S : \A j \in S : k <= j
maxOf(S) == CHOOSE k \in S : \A j \in S : k >= j

\* C6: for an existing review and a new review that are alike (same rating,
\* author and content equal up to letter casing and whitespace runs), the merge
\* adds no record: the records alike to them in the result are exactly the
\* existing ones, and the first of these carries the date of the last such new
\* review; when the two are the only reviews of their kind, the result holds one
\* record for them, at the place of the existing one, dated as the new one.
C6_FingerprintStability ==
  pc = "merged" =>
    \A i \in DOMAIN reviewsOf.existing, j \in DOMAIN reviewsOf.new :
      Alike(reviewsOf.existing[i], reviewsOf.new[j]) =>
        LET E == reviewsOf.existing
            N == reviewsOf.new
            R == reviewsOf.merged
            alikeE == {k \in DOMAIN E : Alike(E[k], E[i])}
            alikeN == {k \in DOMAIN N : Alike(N[k], N[j])}
            alikeR == {k \in DOMAIN R : Alike(R[k], E[i])}
        IN  /\ alikeR = alikeE
            /\ R[minOf(alikeE)].date = N[maxOf(alikeN)].date
            /\ (alikeE = {i} /\ alikeN = {j}) => (alikeR = {i} /\ R[i].date = N[j].date)

\* an existing and a new review that differ in casing, in spacing and in date, the
\* only ones of their kind, merged into one record with the new date
C6_Witness ==
  /\ pc = "merged"
  /\ \E i \in DOMAIN reviewsOf.existing, j \in DOMAIN reviewsOf.new :
       LET e == reviewsOf.existing[i]
           n == reviewsOf.new[j]
       IN  /\ Alike(e, n)
           /\ toLowerCase(e.author) # toLowerCase(n.author)
           /\ e.content # n.content
           /\ e.date # n.date
           /\ \A k \in DOMAIN reviewsOf.existing : k # i => ~Alike(reviewsOf.existing[k], e)
           /\ \A k \in DOMAIN reviewsOf.new : k # j => ~Alike(reviewsOf.new[k], n)
           /\ Len(reviewsOf.merged) = Len(reviewsOf.existing) + Len(reviewsOf.new) - 1
           /\ reviewsOf.merged[i].date = n.date

\* C7 as stated: importing the same file a second time returns the same text,
\* for every existing and new CSV.
C7_AsStated == pc = "reimported" => remerged = merged

\* C7 amended: for every non-empty existing CSV and every new CSV, importing the
\* new CSV a second time returns the text of the first import.
C7_Idempotent == (pc = "reimported" /\ Truthy(existingCsv)) => remerged = merged

\* a first import that re-dated and appended reviews from a batch with a repeated
\* fingerprint, and a second import that changed nothing
C7_Witness ==
  /\ pc = "reimported"
  /\ reviewsOf.existing # <<>>
  /\ Len(reviewsOf.merged) > Len(reviewsOf.existing)
  /\ Len(reviewsOf.new) > Cardinality(keysOf(reviewsOf.new))
  /\ merged # existingCsv
  /\ remerged = merged

----------------------------------------------------------------------------
(* Round-trip property                                                     *)

\* r with the defaults the extractor fills in for a blank author and a blank source
withDefaults(r) ==
  [r EXCEPT !.author = IF @ = <<>> THEN strAnonymous ELSE @,
            !.source = IF @ = <<>> THEN strGoogle ELSE @]

\* C8: for records with trimmed cells and non-negative integer ratings, cells
\* with commas, double quotes and line breaks included, extracting the
\* serialized text gives the same records in the same order, a blank author
\* read back as Anonymous and a blank source as google.
C8_RoundTrip ==
  pc = "extracted" =>
    /\ Len(extracted) = Len(records)
    /\ \A k \in DOMAIN records : extracted[k] = withDefaults(records[k])

\* two records read back, one with a comma, quotes and a line break in its
\* content, one with a blank author and a blank source
C8_Witness ==
  /\ pc = "extracted"
  /\ Len(extracted) = 2
  /\ \E k \in DOMAIN records :
       /\ hasChar(records[k].content, QUOTE) /\ hasChar(records[k].content, COMMA)
       /\ extracted[k].content = records[k].content
  /\ \E k \in DOMAIN records :
       /\ hasChar(records[k].content, LF) /\ hasChar(records[k].content, CR)
       /\ records[k].author = <<>> /\ records[k].source = <<>>
       /\ extracted[k].author = strAnonymous /\ extracted[k].source = strGoogle

----------------------------------------------------------------------------
(* Date resolver properties                                                *)

\* the instant the date cell resolves to: an explicit reference or the anchor
referenceInstant == referenceOr(reference)

\* the unit keywords in their precedence, with their durations in seconds
Units ==
  << [keyword |-> strHour, seconds |-> 3600],
     [keyword |-> strDay, seconds |-> 86400],
     [keyword |-> strWeek, seconds |-> 7 * 86400],
     [keyword |-> strMonth, seconds |-> 30 * 86400],
     [keyword |-> strYear, seconds |-> 365 * 86400] >>

unitsIn(t) == {k \in DOMAIN Units : includes(toLowerCase(t), Units[k].keyword)}

\* the first integer literal of t, 1 when it has none
countIn(t) == IF firstDigitRun(t) = <<>> THEN 1 ELSE parseInt(firstDigitRun(t))

\* reference minus count times the duration of the first unit that occurs in t
relativeInstant(t) == referenceInstant - countIn(t) * Units[minOf(unitsIn(t))].seconds

IsEpochSeconds(t) == Len(trim(t)) = 10 /\ allDigits(trim(t))

\* t is a numeric date D/M/YYYY or D-M-YYYY with a month in 1..12 and a day in 1..31
IsDayMonthYear(t) ==
  /\ dmyMatch(trim(t))
  /\ numericDate(trim(t)).second \in 1..12
  /\ numericDate(trim(t)).first \in 1..31

\* local midnight of the day-month-year reading of t
dayMonthYearInstant(t) ==
  LET n == numericDate(trim(t))
  IN  daysFromCivil(n.year, n.second, n.first) * SecondsPerDay - host.timezone

\* the instant of the first rule that matches, in the order epoch seconds,
\* numeric day/month/year, absolute parse, relative phrase, fallback
firstMatchInOrder(t) ==
  IF IsEpochSeconds(t) THEN parseInt(trim(t))
  ELSE IF IsDayMonthYear(t) THEN dayMonthYearInstant(t)
  ELSE IF dateParse(trim(t), host).valid THEN dateParse(trim(t), host).time
  ELSE IF unitsIn(t) # {} THEN relativeInstant(t)
  ELSE referenceInstant

\* C11 (as stated): the resolver of utils/csvFilter.ts returns the instant of the
\* first rule that matches in the order epoch seconds, numeric day/month/year,
\* absolute parse, relative phrase, fallback; a date that also contains a unit
\* keyword is resolved as a date.
C11_RuleOrder == pc = "parseDate" => resolved = firstMatchInOrder(dateText)

\* C12 (as stated): in both copies of the resolver a cell that is exactly a
\* numeric date D/M/YYYY or D-M-YYYY resolves to the local midnight of day D of
\* month M.
C12_DayMonthYear ==
  (/\ pc \in {"parseDate", "comparisonRowParseDate"}
   /\ IsDayMonthYear(dateText)
   /\ numericDate(trim(dateText)).rest = <<>>)
    => resolved = dayMonthYearInstant(dateText)

\* C13: a cell that is not ten digits and contains a unit keyword resolves, in
\* utils/csvFilter.ts, to the reference minus count times the unit duration:
\* count is the first integer literal (1 without one), the unit is the first of
\* hour, day, week, month, year that occurs in the lower-cased text, and the
\* durations are 3600, 86400, 7*86400, 30*86400 and 365*86400 seconds.  The copy
\* in utils/comparisonRow.ts does the same with every such cell that its Date
\* parser rejects.
C13_RelativePhrase ==
  /\ (pc = "parseDate" /\ unitsIn(dateText) # {} /\ ~IsEpochSeconds(dateText))
       => resolved = relativeInstant(dateText)
  /\ (pc = "comparisonRowParseDate" /\ unitsIn(dateText) # {}
        /\ ~dateParse(dateText, host).valid)
       => resolved = relativeInstant(dateText)

\* a cell with two units and two integers resolved by the earlier unit and the
\* first integer, against an explicit reference
C13_Witness ==
  /\ pc = "parseDate"
  /\ reference.given
  /\ Cardinality(unitsIn(dateText)) = 2
  /\ countIn(dateText) = 2
  /\ resolved = reference.time - 2 * 3600

----------------------------------------------------------------------------
(* Extractor properties                                                    *)

\* the labels of the sheet's header as the extractor compares them
labels == [k \in DOMAIN sheet.header |-> trim(toLowerCase(sheet.header[k]))]

HasAuthorColumn == \E k \in DOMAIN labels : isAuthorHeader(labels[k])
HasContentColumn == \E k \in DOMAIN labels : isContentHeader(labels[k])
HasRatingColumn == \E k \in DOMAIN labels : isRatingHeader(labels[k])
HasDateColumn == \E k \in DOMAIN labels : isDateHeader(labels[k])
HasSourceColumn == \E k \in DOMAIN labels : isSourceHeader(labels[k])
HasRequiredColumns == HasAuthorColumn /\ HasContentColumn /\ HasRatingColumn

\* the data rows the extractor reads: those with more than one cell
readRows == SelectSeq(sheet.rows, moreThanOneCell)

\* the rating cell of a data row, empty when the row ends before it
ratingCell(row) == IF Len(row) >= 4 THEN row[4] ELSE <<>>

\* the value of the first run of digits of cell, 0 when it has no digit
firstInteger(cell) ==
  LET digitsAt == {k \in DOMAIN cell : IsDigit(cell[k])}
      from == minOf(digitsAt)
      to == maxOf({k \in from..Len(cell) : \A m \in from..k : IsDigit(cell[m])})
  IN  IF digitsAt = {} THEN 0 ELSE parseInt(SubSeq(cell, from, to))

\* C14 (as stated): every review that parseReviews returns has a rating in 0..5.
C14_RatingRange ==
  pc = "reviews" => \A k \in DOMAIN reviewList : reviewList[k].rating \in 0..5

\* C15: under a header with the required columns every data row of more than
\* one cell gives one review, in order, whatever its rating cell holds, and the
\* rating is the value of the first run of digits of the rating cell, 0 when the
\* cell has no digit or the row ends before it.
C15_FirstDigitRun ==
  (pc = "reviews" /\ HasRequiredColumns) =>
    /\ Len(reviewList) = Len(readRows)
    /\ \A k \in DOMAIN readRows : reviewList[k].rating = firstInteger(ratingCell(readRows[k]))

\* a row that ends before its rating cell read with rating 0, next to a cell
\* whose digits come after other text
C15_Witness ==
  /\ pc = "reviews"
  /\ Len(reviewList) = 2
  /\ \E k \in DOMAIN readRows : Len(readRows[k]) < 4 /\ reviewList[k].rating = 0
  /\ \E k \in DOMAIN readRows :
       /\ ratingCell(readRows[k]) # <<>> /\ ~IsDigit(ratingCell(readRows[k])[1])
       /\ reviewList[k].rating = 4

\* C16: a header without an author, a content or a rating column gives no
\* review, however many data rows follow; with the three columns every data row
\* of more than one cell gives a review, whose date is empty when the header has
\* no date column and whose source is google when it has no source column.
C16_RequiredColumns ==
  pc = "reviews" =>
    /\ ~HasRequiredColumns => reviewList = <<>>
    /\ HasRequiredColumns =>
         /\ Len(reviewList) = Len(readRows)
         /\ ~HasDateColumn => \A k \in DOMAIN reviewList : reviewList[k].date = <<>>
         /\ ~HasSourceColumn => \A k \in DOMAIN reviewList : reviewList[k].source = strGoogle

\* two full data rows under a header whose only rating label is an overall
\* rating, and nothing extracted
C16_Witness ==
  /\ pc = "reviews"
  /\ HasAuthorColumn /\ HasContentColumn /\ ~HasRatingColumn
  /\ Len(readRows) = 2
  /\ reviewList = <<>>

\* C17: the same data rows give the same reviews under
\* Reviewer,Time,Comment,Rating as under author,commented_at,content,rating.
C17_HeaderConventions == pc = "conventions" => reviewListAlt = reviewList

\* two reviews with a date, an author, a content and a rating, equal under both
\* conventions
C17_Witness ==
  /\ pc = "conventions"
  /\ sheet.header = reviewerHeader
  /\ Len(reviewList) = 2
  /\ \A k \in DOMAIN reviewList :
       /\ reviewList[k].date # <<>> /\ reviewList[k].content # <<>>
       /\ reviewList[k].rating > 0
  /\ reviewListAlt = reviewList

----------------------------------------------------------------------------
(* Time filter properties                                                  *)

\* the header of the sheet has a label that is exactly commented_at, time or date
HasDateLabel ==
  \E k \in DOMAIN sheet.header :
    trim(toLowerCase(sheet.header[k])) \in {strCommentedAt, strTime, strDate}

\* the date cell of a data row of the sheet (its second cell), empty for a row
\* that ends before it
cellDate(row) == IF Len(row) >= 2 THEN trim(row[2]) ELSE <<>>

\* the instant the date cell of row resolves to when the filter reads the clock
rowInstant(row) == parseDate(cellDate(row), [given |-> TRUE, time |-> clock], host)

\* the data rows of the sheet that have a date cell resolving into the interval
\* from..to, to included when closed and excluded otherwise
rowsWithin(from, to, closed) ==
  LET within(row) ==
        /\ cellDate(row) # <<>>
        /\ rowInstant(row) >= from
        /\ IF closed THEN rowInstant(row) <= to ELSE rowInstant(row) < to
  IN  SelectSeq(sheet.rows, within)

\* the data rows of a CSV text whose first line is the header
dataRowsOf(csv) == IF parseCSV(csv) = <<>> THEN <<>> ELSE Tail(parseCSV(csv))

\* N months of 30 days in seconds, N in hundredths
thirtyDayMonths(hundredths) == (hundredths * 30 * 86400) \div 100

\* local midnight of the first day of the month the clock reading lies in
firstOfMonth ==
  maxOf({t \in {daysFromCivil(y, m, 1) * 86400 - host.timezone : y \in 2025..2027, m \in 1..12} :
           t <= clock})

C19_RangeWindows ==
  pc \in {"filterCsvByTimeRange", "filterCsvByDaysRange"} =>
    LET from == IF pc = "filterCsvByTimeRange" THEN clock - thirtyDayMonths(args.start)
                ELSE clock - args.start * 86400
        to == IF pc = "filterCsvByTimeRange" THEN clock - thirtyDayMonths(args.end)
              ELSE clock - args.end * 86400
    IN  /\ args.start <= args.end => filtered = <<>>
        /\ (args.start > args.end /\ HasDateLabel) =>
             dataRowsOf(filtered) = rowsWithin(from, to, FALSE)

\* the days range (14, 7): a row dated exactly 7 days ago, the excluded end of
\* the range, is dropped, and a row dated 9 days ago is kept
C19_Witness ==
  /\ pc = "filterCsvByDaysRange"
  /\ args.start = 14 /\ args.end = 7
  /\ Len(sheet.rows) = 2
  /\ rowInstant(sheet.rows[1]) = clock - 7 * 86400
  /\ rowInstant(sheet.rows[2]) = clock - 9 * 86400
  /\ dataRowsOf(filtered) = <<sheet.rows[2]>>

\* C20: when no label of the header is exactly commented_at, time or date,
\* filterCsvByTime with a month count returns the text it was given, and the
\* two range filters return the empty string.
C20_NoDateColumn ==
  ~HasDateLabel =>
    /\ pc = "filterCsvByTime" => filtered = csvInput
    /\ pc \in {"filterCsvByTimeRange", "filterCsvByDaysRange"} => filtered = <<>>

\* a month range with start > end on a sheet with two dated rows under the
\* label Date Posted, and an empty result
C20_Witness ==
  /\ pc = "filterCsvByTimeRange"
  /\ args.start > args.end
  /\ ~HasDateLabel
  /\ Len(sheet.rows) = 2
  /\ \A k \in DOMAIN sheet.rows : cellDate(sheet.rows[k]) # <<>>
  /\ filtered = <<>>

----------------------------------------------------------------------------
(* Reproducibility of the filters                                          *)

\* C21 (as stated): two calls of a filter with the same text and the same
\* window arguments return the same text, whatever the process clock reads.
C21_Reproducible == pc = "again" => again.filtered = filtered

----------------------------------------------------------------------------
(* Frame and order of the merge                                            *)

\* the stored review at index k is the first of the stored reviews alike to it
FirstOfItsKind(k) ==
  \A j \in 1..(k - 1) : ~Alike(reviewsOf.existing[j], reviewsOf.existing[k])

\* some review of the imported file is alike to the stored review at index k
OccursInNew(k) ==
  \E n \in DOMAIN reviewsOf.new : Alike(reviewsOf.new[n], reviewsOf.existing[k])

\* C22: after an import every stored review is at its index with its stored
\* author, content, rating and source, and with its stored date too unless it is
\* the first stored review of its fingerprint and that fingerprint occurs in the
\* imported file.
C22_OnlyFirstDateChanges ==
  pc = "merged" =>
    /\ Len(reviewsOf.merged) >= Len(reviewsOf.existing)
    /\ \A k \in DOMAIN reviewsOf.existing :
         /\ reviewsOf.merged[k].author = reviewsOf.existing[k].author
         /\ reviewsOf.merged[k].content = reviewsOf.existing[k].content
         /\ reviewsOf.merged[k].rating = reviewsOf.existing[k].rating
         /\ reviewsOf.merged[k].source = reviewsOf.existing[k].source
         /\ ~(FirstOfItsKind(k) /\ OccursInNew(k)) =>
              reviewsOf.merged[k].date = reviewsOf.existing[k].date

\* two stored reviews alike to each other and to an imported one in another
\* spelling: the first takes the imported date, the second keeps its own, and
\* the first keeps its stored author and content
C22_Witness ==
  /\ pc = "merged"
  /\ Len(reviewsOf.existing) = 2 /\ Len(reviewsOf.new) = 1
  /\ Alike(reviewsOf.existing[1], reviewsOf.existing[2])
  /\ Alike(reviewsOf.new[1], reviewsOf.existing[1])
  /\ reviewsOf.new[1].author # reviewsOf.existing[1].author
  /\ reviewsOf.new[1].date # reviewsOf.existing[1].date
  /\ reviewsOf.merged[1].date = reviewsOf.new[1].date
  /\ reviewsOf.merged[1].author = reviewsOf.existing[1].author
  /\ reviewsOf.merged[2] = reviewsOf.existing[2]

\* the imported reviews that open a fingerprint: alike to no stored review and to
\* no earlier imported review
freshIn == 
  {n \in DOMAIN reviewsOf.new :
     /\ \A k \in DOMAIN reviewsOf.existing : ~Alike(reviewsOf.new[n], reviewsOf.existing[k])
     /\ \A m \in 1..(n - 1) : ~Alike(reviewsOf.new[n], reviewsOf.new[m])}

\* the i-th smallest element of the set S of integers
nthOf(S, i) == CHOOSE n \in S : Cardinality({m \in S : m <= n}) = i

\* the stored reviews come first in their order, then one review for each
\* fingerprint the import opens, in the order of first occurrence
StoredThenFresh ==
  /\ Len(reviewsOf.merged) = Len(reviewsOf.existing) + Cardinality(freshIn)
  /\ \A k \in DOMAIN reviewsOf.existing :
       SameButDate(reviewsOf.existing[k], reviewsOf.merged[k])
  /\ \A i \in 1..Cardinality(freshIn) :
       SameButDate(reviewsOf.new[nthOf(freshIn, i)],
                   reviewsOf.merged[Len(reviewsOf.existing) + i])

\* C23 (as stated): in the output of every import, a first import into an empty
\* store included, the stored reviews come first and each fingerprint new to
\* the store is appended once, in the order of first occurrence.
C23_AsStated ==
  (pc = "merged" /\ (reviewsOf.existing # <<>> \/ ~Truthy(existingCsv))) => StoredThenFresh

\* C23 (amended): when the stored CSV yields at least one review, the output
\* holds the stored reviews in their order followed by one review for each
\* fingerprint new to the store, in the order of first occurrence in newCsv.
C23_Order == (pc = "merged" /\ reviewsOf.existing # <<>>) => StoredThenFresh

\* a stored review followed by two appended reviews of different fingerprints
C23_Witness ==
  /\ pc = "merged"
  /\ Len(reviewsOf.existing) = 1
  /\ freshIn = {1, 2}
  /\ Len(reviewsOf.merged) = 3
  /\ reviewsOf.merged[2] = reviewsOf.new[1]
  /\ reviewsOf.merged[3] = reviewsOf.new[2]
  /\ reviewsOf.merged[2] # reviewsOf.merged[3]

\* C24: for a non-empty text that does not end in a line terminator and whose
\* quotes are all closed, parseCSV returns the rows it returns for the text
\* followed by one LF: the last row is kept, a row of one empty quoted cell
\* included, and the terminator adds no row.
C24_EndOfInputFlush ==
  (/\ pc = "done"
   /\ text # <<>>
   /\ text[Len(text)] \notin {CR, LF}
   /\ ~tok.inQuotes) => tok.rows = parseCSV(text \o <<LF>>)

\* C25: parseReviews and the filters locate the same header row in every text:
\* the first of the first 10 tokenized rows whose lower-cased cells contain
\* reviewer or author, and the first row when there is none.
C25_SameHeaderRow ==
  pc = "headers" => located.parseReviews.header = located.filter.columns

\* the cell of row in column c, empty when the row ends before it
cellAt(row, c) == IF c \in DOMAIN row THEN row[c] ELSE <<>>

\* the columns whose trimmed, lower-cased label is commented_at, time or date
DateColumns == {c \in DOMAIN labels : labels[c] \in {strCommentedAt, strTime, strDate}}

\* the columns whose trimmed, lower-cased label is content or comment
ContentColumns == {c \in DOMAIN labels : labels[c] \in {strContent, strComment}}

\* the columns whose label does not contain overall
NotOverallColumns == {c \in DOMAIN labels : ~includes(labels[c], strOverall)}

\* C26: the date of a review is read from a column labelled exactly
\* commented_at, time or date, its content from a column labelled exactly
\* content or comment, and its rating from no column whose label contains
\* overall; a field with no such column keeps its default.
C26_ColumnMapping ==
  pc = "reviews" =>
    \A k \in DOMAIN reviewList :
      /\ \/ reviewList[k].date = <<>>
         \/ \E c \in DateColumns : reviewList[k].date = trim(cellAt(readRows[k], c))
      /\ \/ reviewList[k].content = <<>>
         \/ \E c \in ContentColumns : reviewList[k].content = trim(cellAt(readRows[k], c))
      /\ \/ reviewList[k].rating = 0
         \/ \E c \in NotOverallColumns :
              reviewList[k].rating = firstInteger(cellAt(readRows[k], c))

\* two reviews read under author, Updated_Date ,content,rating: the cells under
\* Updated_Date are not their dates
C26_Witness ==
  /\ pc = "reviews"
  /\ sheet.header = updatedDateHeader
  /\ Len(reviewList) = 2
  /\ \A k \in DOMAIN reviewList :
       /\ cellAt(readRows[k], 2) # <<>>
       /\ reviewList[k].date = <<>>
       /\ reviewList[k].content = cellAt(readRows[k], 3)

\* C27: the current and the previous period of the dashboard share no row: the
\* reviews counted in the current period and those counted in the previous
\* period are together no more than the reviews of the text.
C27_PeriodsDisjoint ==
  pc = "kpis" => kpis.current + kpis.prevTotal <= Len(parseReviews(csvInput))

\* a is b with some of its elements removed
RECURSIVE IsSubsequence(_, _)
IsSubsequence(a, b) ==
  IF a = <<>> THEN TRUE
  ELSE IF b = <<>> THEN FALSE
  ELSE IF Head(a) = Head(b) THEN IsSubsequence(Tail(a), Tail(b))
  ELSE IsSubsequence(a, Tail(b))

\* C28: the reviews parseReviews extracts from the output of a filter are a
\* subsequence of the reviews it extracts from the unfiltered text, with every
\* field unchanged.
C28_OnlyRemoves ==
  pc \in {"filterCsvByTime", "filterCsvByTimeRange", "filterCsvByDaysRange"} =>
    IsSubsequence(parseReviews(filtered), parseReviews(csvInput))

\* C29: two reviews have the same fingerprint only if they have the same
\* normalized author, the same normalized content and the same rating.
C29_Injective ==
  pc = "fingerprints" =>
    \A i, j \in DOMAIN records :
      keys[i] = keys[j] =>
        /\ normalize(records[i].author) = normalize(records[j].author)
        /\ normalize(records[i].content) = normalize(records[j].content)
        /\ records[i].rating = records[j].rating

\* the rows of the data list with the id
rowsFor(id) == {k \in DOMAIN board.data : board.data[k].id = id}

\* C30: once two handler calls with disjoint ids have both returned, the data
\* list holds, for each id of each call, the row that call produced, and holds
\* each of these ids once.
C30_NoResultLost ==
  (/\ pc = "board"
   /\ \A c \in Calls : board.calls[c].stage = "done"
   /\ idsOf(board.calls["call1"]) \cap idsOf(board.calls["call2"]) = {}) =>
    \A c \in Calls : \A id \in idsOf(board.calls[c]) :
      /\ Cardinality(rowsFor(id)) = 1
      /\ \A k \in rowsFor(id) : board.data[k].from = c

====
